---- MODULE Spec2Model ----
(***************************************************************************)
(* A model of pycleanups (src/pycleanups/cleanups.py): the Cleanups        *)
(* registry, its Cleanup records, the listener protocol and the            *)
(* _CleanupListenerNotifier dispatcher.                                    *)
(*                                                                         *)
(* Threads call the public methods of a registry.  A method whose whole    *)
(* body is one `with lock:` block of list operations (add, add_to_front,   *)
(* remove, clear, add_global_listener) is one step, taken when the lock is *)
(* free.  run() is a frame on the calling thread's stack that walks        *)
(* through the lines of run(), _get_cleanups_and_listeners_for_execution(),*)
(* _execute_cleanup() and dispatch_notifications(), holding each lock from *)
(* one step to the next; user code (a cleanup's function, a listener's     *)
(* callback) is a position of the frame in which the thread may call the   *)
(* registry again.                                                         *)
(***************************************************************************)
EXTENDS Integers, Sequences, FiniteSets, TLC

\* ------------------------------------------------------------------ bounds
\* Records one registry creates (the largest id it hands out).
MaxCleanups == 2
\* run() calls made over all threads and registries.
MaxRuns == 2
\* Listeners registered in one collection (instance or global).
MaxListeners == 2

\* Elements of a list or tuple handed to Cleanup(...) directly.
MaxLen == 2

Threads == {"t1", "t2"}
\* "r1" is the module-level instance `cleanups = Cleanups()`.
Registries == {"r1", "r2"}
NoThread == "-"
NoResult == [thread |-> "-", op |-> "-", arg |-> "-", kind |-> "-", value |-> "-"]

VARIABLES
    instances,          \* the Cleanups objects constructed so far
    cleanups,           \* self.cleanups of each registry: the pending sequence
    listeners,          \* self.listeners of each registry
    next_cleanup_id,    \* self.next_cleanup_id of each registry
    lock,               \* self.lock of each registry: the thread holding it
    global_listeners,   \* Cleanups.global_listeners
    global_lock,        \* Cleanups.global_lock: the thread holding it
    stack,              \* per thread: its run() frames, innermost last
    result,             \* the last call that ended: what it returned or raised
    nruns,              \* run() calls made so far
    ndetach,            \* per registry: detaches of its pending sequence so far
    hist                \* history of each record created: how it left the
                        \* pending sequence, how often its function was called

vars == <<instances, cleanups, listeners, next_cleanup_id, lock,
          global_listeners, global_lock, stack, result, nruns, ndetach, hist>>

\* ----------------------------------------------------------------- helpers
Range(s) == {s[k] : k \in 1..Len(s)}

ReverseMut(s) == s

\* list.reverse()
RECURSIVE Reverse(_)
Reverse(s) == IF s = <<>> THEN <<>> ELSE Append(Reverse(Tail(s)), Head(s))

InsertFrontMut(s, c) == Append(s, c)

\* list.insert(0, c)
InsertFront(s, c) == <<c>> \o s

\* list.append(c)
ListAppend(s, c) == Append(s, c)

\* `c in list`
ListContains(s, c) == \E k \in 1..Len(s) : s[k] = c

IndexOf(s, c) == CHOOSE k \in 1..Len(s) : s[k] = c /\ \A m \in 1..(k-1) : s[m] # c

ListRemoveMut(s, c) ==
    IF ListContains(s, c) THEN [ok |-> TRUE, list |-> <<>>]
    ELSE [ok |-> FALSE, list |-> s]

ListRemoveQuietMut(s, c) ==
    IF ListContains(s, c)
    THEN LET k == IndexOf(s, c)
         IN  [ok |-> TRUE, list |-> SubSeq(s, 1, k-1) \o SubSeq(s, k+1, Len(s))]
    ELSE [ok |-> TRUE, list |-> IF s = <<>> THEN s ELSE Tail(s)]

ListRemoveKeepMut(s, c) ==
    IF ListContains(s, c) THEN [ok |-> TRUE, list |-> s]
    ELSE [ok |-> FALSE, list |-> s]

\* list.remove(c): drops the first element equal to c, or raises ValueError
\* (ok = FALSE) and leaves the list alone.
ListRemove(s, c) ==
    IF ListContains(s, c)
    THEN LET k == IndexOf(s, c)
         IN  [ok |-> TRUE, list |-> SubSeq(s, 1, k-1) \o SubSeq(s, k+1, Len(s))]
    ELSE [ok |-> FALSE, list |-> s]

ListClearMut(s) == s

\* list.clear()
ListClear(s) == <<>>

CleanupMut(r, id, func, args, kwargs) ==
    [cleanups |-> r, id |-> id, func |-> func, args |-> Reverse(args), kwargs |-> {}]

\* The Cleanup object: Cleanup.__init__ stores its arguments: the positional
\* ones as a tuple, the named ones as a dict, here a sequence and a set of
\* <<name, value>> items.
Cleanup(r, id, func, args, kwargs) ==
    [cleanups |-> r, id |-> id, func |-> func, args |-> args, kwargs |-> kwargs]

\* ------------------------------------------------------- records and inputs
\* The functions a caller registers.  "f_ok" returns None; "f_args" returns
\* what it was called with; "f_raise" raises KeyError("x"); "f_exit" raises
\* SystemExit, which is no subclass of Exception.
Funcs == {"f_ok", "f_args", "f_raise", "f_exit"}

\* Cleanup.run: self.func(*self.args, **self.kwargs), returning what the
\* function returns or raising what it raises.
CleanupRun(c) ==
    CASE c.func = "f_raise" -> [kind |-> "raise", value |-> "KeyError"]
      [] c.func = "f_exit"  -> [kind |-> "raise", value |-> "SystemExit"]
      [] c.func = "f_args"  -> [kind |-> "return", value |-> <<c.args, c.kwargs>>]
      [] OTHER              -> [kind |-> "return", value |-> "None"]

\* A listener object.  kind "method": an instance of a CleanupListener
\* subclass, whose starting/completed/failed are methods of the class.
\* kind "attr": an object whose starting/completed/failed are plain callables
\* stored on the instance (the tests' CleanupListenerHelper).  beh is what its
\* callbacks do: "none" returns None, "skip" returns True from starting,
\* "raise" raises.
Listener(kind, beh) == [kind |-> kind, beh |-> beh]

Top(t) == stack[t][Len(stack[t])]

SetTop(t, f) == [stack EXCEPT ![t] = [stack[t] EXCEPT ![Len(stack[t])] = f]]

\* The thread is in code of the caller: its own code (also the body of a
\* `with` statement on a registry), or a cleanup function or listener
\* callback that run() is executing.
InUserCode(t) ==
    IF stack[t] = <<>> THEN TRUE ELSE Top(t).pc \in {"action", "callback", "body"}

Made == DOMAIN hist

\* -------------------------------------------------------------------- Init
Init ==
    /\ instances = {"r1"}
    /\ cleanups = [r \in Registries |-> <<>>]
    /\ listeners = [r \in Registries |-> <<>>]
    /\ next_cleanup_id = [r \in Registries |-> 0]
    /\ lock = [r \in Registries |-> NoThread]
    /\ global_listeners = <<>>
    /\ global_lock = NoThread
    /\ stack = [t \in Threads |-> <<>>]
    /\ result = NoResult
    /\ nruns = 0
    /\ ndetach = [r \in Registries |-> 0]
    /\ hist = <<>>

\* What a call hands back to its caller: a value, or an exception.
Returned(t, op, arg, value) ==
    [thread |-> t, op |-> op, arg |-> arg, kind |-> "return", value |-> value]

Raised(t, op, arg, exc) ==
    [thread |-> t, op |-> op, arg |-> arg, kind |-> "raise", value |-> exc]

\* ------------------------------------------------- add and add_to_front
NewCleanupMut(r, func, args, kwargs) ==
    Cleanup(r, Len(cleanups[r]) + 1, func, args, kwargs)

\* _new_cleanup: self.next_cleanup_id += 1;
\* return Cleanup(self, self.next_cleanup_id, func, args, kwargs)
NewCleanup(r, func, args, kwargs) ==
    Cleanup(r, next_cleanup_id[r] + 1, func, args, kwargs)

\* What add / add_to_front leave in the history of the record they made.
Registered(r, c, op) ==
    hist @@ (c :> [fate |-> "pending", via |-> op, calls |-> 0,
                   epoch |-> ndetach[r], by |-> 0])

\* add(func, *args, **kwargs): under self.lock, a new record is appended;
\* the record is returned.
Add(t, r, func, args, kwargs) ==
    /\ InUserCode(t)
    /\ r \in instances
    /\ next_cleanup_id[r] < MaxCleanups
    /\ lock[r] = NoThread
    /\ LET c == NewCleanup(r, func, args, kwargs)
       IN  /\ next_cleanup_id' = [next_cleanup_id EXCEPT ![r] = c.id]
           /\ cleanups' = [cleanups EXCEPT ![r] = ListAppend(@, c)]
           /\ result' = Returned(t, "add", "-", c)
           /\ hist' = Registered(r, c, "add")
    /\ UNCHANGED <<instances, listeners, lock, global_listeners, global_lock,
                   stack, nruns, ndetach>>

\* add_to_front(func, *args, **kwargs): under self.lock, a new record is
\* inserted at position 0; the record is returned.
AddToFront(t, r, func, args, kwargs) ==
    /\ InUserCode(t)
    /\ r \in instances
    /\ next_cleanup_id[r] < MaxCleanups
    /\ lock[r] = NoThread
    /\ LET c == NewCleanup(r, func, args, kwargs)
       IN  /\ next_cleanup_id' = [next_cleanup_id EXCEPT ![r] = c.id]
           /\ cleanups' = [cleanups EXCEPT ![r] = InsertFront(@, c)]
           /\ result' = Returned(t, "add_to_front", "-", c)
           /\ hist' = Registered(r, c, "add_to_front")
    /\ UNCHANGED <<instances, listeners, lock, global_listeners, global_lock,
                   stack, nruns, ndetach>>

\* ------------------------------------------------------- remove and clear
\* remove(cleanup): under self.lock, self.cleanups.remove(cleanup).  The
\* caller passes any record it was ever handed; the ValueError of
\* list.remove leaves the with block and reaches the caller.
Remove(t, r, c) ==
    /\ InUserCode(t)
    /\ r \in instances
    /\ c \in Made
    /\ lock[r] = NoThread
    /\ LET rm == ListRemove(cleanups[r], c)
       IN  /\ cleanups' = [cleanups EXCEPT ![r] = rm.list]
           /\ result' = IF rm.ok THEN Returned(t, "remove", c, "None")
                        ELSE Raised(t, "remove", c, "ValueError")
           /\ hist' = IF rm.ok THEN [hist EXCEPT ![c].fate = "removed"] ELSE hist
    /\ UNCHANGED <<instances, listeners, next_cleanup_id, lock, global_listeners,
                   global_lock, stack, nruns, ndetach>>

\* clear(): under self.lock, self.cleanups.clear().
Clear(t, r) ==
    /\ InUserCode(t)
    /\ r \in instances
    /\ lock[r] = NoThread
    /\ cleanups' = [cleanups EXCEPT ![r] = ListClear(@)]
    /\ hist' = [c \in Made |->
                  IF c.cleanups = r /\ hist[c].fate = "pending"
                  THEN [hist[c] EXCEPT !.fate = "cleared"] ELSE hist[c]]
    /\ result' = Returned(t, "clear", "-", "None")
    /\ UNCHANGED <<instances, listeners, next_cleanup_id, lock, global_listeners,
                   global_lock, stack, nruns, ndetach>>

ListLenMut(s) == Len(s) + 1

\* len(list)
ListLen(s) == Len(s)

\* __contains__(cleanup): under self.lock, `cleanup in self.cleanups`.
Contains(t, r, c) ==
    /\ InUserCode(t)
    /\ r \in instances
    /\ lock[r] = NoThread
    /\ result' = Returned(t, "contains", c, ListContains(cleanups[r], c))
    /\ UNCHANGED <<instances, cleanups, listeners, next_cleanup_id, lock,
                   global_listeners, global_lock, stack, nruns, ndetach, hist>>

\* __len__(): under self.lock, len(self.cleanups).
LenOf(t, r) ==
    /\ InUserCode(t)
    /\ r \in instances
    /\ lock[r] = NoThread
    /\ result' = Returned(t, "len", r, ListLen(cleanups[r]))
    /\ UNCHANGED <<instances, cleanups, listeners, next_cleanup_id, lock,
                   global_listeners, global_lock, stack, nruns, ndetach, hist>>

\* add_unlink(path): self.add(os.unlink, path); nothing is returned.
AddUnlink(t, r, path) ==
    /\ InUserCode(t)
    /\ r \in instances
    /\ next_cleanup_id[r] < MaxCleanups
    /\ lock[r] = NoThread
    /\ LET c == NewCleanup(r, "os.unlink", <<path>>, {})
       IN  /\ next_cleanup_id' = [next_cleanup_id EXCEPT ![r] = c.id]
           /\ cleanups' = [cleanups EXCEPT ![r] = ListAppend(@, c)]
           /\ result' = Returned(t, "add_unlink", path, "None")
           /\ hist' = Registered(r, c, "add")
    /\ UNCHANGED <<instances, listeners, lock, global_listeners, global_lock,
                   stack, nruns, ndetach>>

\* add_rmtree(path): self.add(shutil.rmtree, path); nothing is returned.
AddRmtree(t, r, path) ==
    /\ InUserCode(t)
    /\ r \in instances
    /\ next_cleanup_id[r] < MaxCleanups
    /\ lock[r] = NoThread
    /\ LET c == NewCleanup(r, "shutil.rmtree", <<path>>, {})
       IN  /\ next_cleanup_id' = [next_cleanup_id EXCEPT ![r] = c.id]
           /\ cleanups' = [cleanups EXCEPT ![r] = ListAppend(@, c)]
           /\ result' = Returned(t, "add_rmtree", path, "None")
           /\ hist' = Registered(r, c, "add")
    /\ UNCHANGED <<instances, listeners, lock, global_listeners, global_lock,
                   stack, nruns, ndetach>>

\* ---------------------------------------------------------------- run()
NoOutcome == [kind |-> "-", value |-> "-"]

\* The locals of one run() call.  log, snapshot, expect and epoch are
\* history: what this call has delivered and invoked so far, the pending
\* sequence as it was detached, the records that were registered and had
\* not left the registry at the detach, and the number of the detach.
RunFrame(r) ==
    [reg |-> r, pc |-> "detach", cleanups |-> <<>>, inst |-> <<>>,
     listeners |-> <<>>, i |-> 0, j |-> 0, event |-> "-", res |-> FALSE,
     out |-> NoOutcome, log |-> <<>>, snapshot |-> <<>>, expect |-> {}, epoch |-> 0]

LogEntry(ev, c, j, x) == [ev |-> ev, c |-> c, l |-> j, x |-> x]

\* run() is called and enters `with self.lock:` of
\* _get_cleanups_and_listeners_for_execution.
CallRun(t, r) ==
    /\ InUserCode(t)
    /\ r \in instances
    /\ nruns < MaxRuns
    /\ lock[r] = NoThread
    /\ lock' = [lock EXCEPT ![r] = t]
    /\ nruns' = nruns + 1
    /\ stack' = [stack EXCEPT ![t] = Append(@, RunFrame(r))]
    /\ UNCHANGED <<instances, cleanups, listeners, next_cleanup_id,
                   global_listeners, global_lock, result, ndetach, hist>>

ReleaseMut(l, r) == l

\* The end of `with self.lock:` in _get_cleanups_and_listeners_for_execution:
\* the instance lock is released.
Release(l, r) == [l EXCEPT ![r] = NoThread]

DetachMut(s) == [taken |-> s, left |-> s]

\* cleanups = self.cleanups; self.cleanups = []
Detach(s) == [taken |-> s, left |-> <<>>]

EffectiveListenersMut(g, l) == l \o g

\* listeners = global_listeners + listeners
EffectiveListeners(g, l) == g \o l

\* The detach under the instance lock, the snapshot of the instance
\* listeners (tuple(self.listeners): the frame keeps the value the list has
\* now), and the release of the lock.
RunDetach(t) ==
    /\ stack[t] # <<>>
    /\ Top(t).pc = "detach"
    /\ LET f == Top(t)
           r == f.reg
           d == Detach(cleanups[r])
           gone == {c \in Made : c.cleanups = r /\ hist[c].fate = "pending"}
       IN  /\ cleanups' = [cleanups EXCEPT ![r] = d.left]
           /\ lock' = Release(lock, r)
           /\ ndetach' = [ndetach EXCEPT ![r] = @ + 1]
           /\ hist' = [c \in Made |->
                         IF c \in gone
                         THEN [hist[c] EXCEPT !.fate = "detached", !.by = ndetach[r] + 1]
                         ELSE hist[c]]
           /\ stack' = SetTop(t, [f EXCEPT !.pc = "global",
                                           !.cleanups = d.taken,
                                           !.inst = listeners[r],
                                           !.snapshot = d.taken,
                                           !.expect = gone,
                                           !.epoch = ndetach[r] + 1])
    /\ UNCHANGED <<instances, listeners, next_cleanup_id, global_listeners,
                   global_lock, result, nruns>>

\* `with self.global_lock:`
RunGlobalAcquire(t) ==
    /\ stack[t] # <<>>
    /\ Top(t).pc = "global"
    /\ global_lock = NoThread
    /\ global_lock' = t
    /\ stack' = SetTop(t, [Top(t) EXCEPT !.pc = "global_locked"])
    /\ UNCHANGED <<instances, cleanups, listeners, next_cleanup_id, lock,
                   global_listeners, result, nruns, ndetach, hist>>

RECURSIVE NextCleanup(_)

AfterDispatchMut(f) == NextCleanup(f)

\* _execute_cleanup after a dispatch returned f.res: `if not
\* listeners.starting(cleanup)` runs the cleanup; after completed/failed the
\* for loop of run() goes on.
AfterDispatch(f) ==
    IF f.event = "starting" /\ ~f.res THEN [f EXCEPT !.pc = "exec"]
    ELSE NextCleanup(f)

\* dispatch_notifications is entered: result = False, the loop over
\* self.listeners begins.
Dispatch(f, event) ==
    LET g == [f EXCEPT !.event = event, !.j = 1, !.res = FALSE]
    IN  IF g.listeners = <<>> THEN AfterDispatch(g) ELSE [g EXCEPT !.pc = "notify"]

\* `for cleanup in cleanups:` takes the next record, or run() is done.
NextCleanup(f) ==
    LET g == [f EXCEPT !.i = f.i + 1, !.out = NoOutcome]
    IN  IF g.i > Len(g.cleanups) THEN [g EXCEPT !.pc = "done", !.event = "-", !.j = 0]
        ELSE Dispatch(g, "starting")

\* The snapshot of the global listeners, the release of the global lock,
\* the effective listener order, and cleanups.reverse() in run().
RunGlobalSnapshot(t) ==
    /\ stack[t] # <<>>
    /\ Top(t).pc = "global_locked"
    /\ global_lock' = NoThread
    /\ LET f == Top(t)
           g == [f EXCEPT !.listeners = EffectiveListeners(global_listeners, f.inst),
                          !.cleanups = Reverse(f.cleanups)]
       IN  stack' = SetTop(t, NextCleanup(g))
    /\ UNCHANGED <<instances, cleanups, listeners, next_cleanup_id, lock,
                   global_listeners, result, nruns, ndetach, hist>>

\* ------------------------------------------- dispatch_notifications
\* Positional arguments dispatch_notifications passes to the callable it
\* got from the listener: func(listener, self.cleanups, *args), where args is
\* (cleanup) for starting and (cleanup, retval) or (cleanup, exc_info) else.
ArgsPassed(event) == 2 + (IF event = "starting" THEN 1 ELSE 2)

\* Positional arguments the callable takes.  `lambda x: x.starting` of a
\* "method" listener is the bound method: self is bound already, and it
\* takes (cleanups, cleanup) or (cleanups, cleanup, retval/exc_info).  The
\* plain callable of an "attr" listener takes what it is called with.
ArgsTaken(l, event) ==
    IF l.kind = "method" THEN 1 + (IF event = "starting" THEN 1 ELSE 2)
    ELSE ArgsPassed(event)

DispatchCatchesMut(exc) == exc # "ListenerError"

\* The bare `except:` of dispatch_notifications catches every exception.
DispatchCatches(exc) == TRUE

ExecuteCatchesMut(exc) == exc \notin {"SystemExit"}

\* The bare `except:` of _execute_cleanup catches every exception.
ExecuteCatches(exc) == TRUE

NextListenerMut(f) ==
    LET g == [f EXCEPT !.listeners = global_listeners \o listeners[f.reg]]
    IN  IF g.j + 1 > Len(g.listeners) THEN AfterDispatch([g EXCEPT !.j = g.j + 1])
        ELSE [g EXCEPT !.j = g.j + 1, !.pc = "notify"]

\* The loop of dispatch_notifications goes to the next listener, or returns.
NextListener(f) ==
    IF f.j + 1 > Len(f.listeners) THEN AfterDispatch([f EXCEPT !.j = f.j + 1])
    ELSE [f EXCEPT !.j = f.j + 1, !.pc = "notify"]

\* An exception leaves run(): the frame is gone and the caller of run() has
\* the exception.
Propagate(t, exc) ==
    /\ stack' = [stack EXCEPT ![t] = SubSeq(@, 1, Len(@) - 1)]
    /\ result' = Raised(t, "run", "-", exc)

\* dispatch_notifications calls the callable of listener j.  A call with
\* the wrong number of arguments raises TypeError before the callable's body
\* runs; the except clause prints it and the loop goes on.
Notify(t) ==
    /\ stack[t] # <<>>
    /\ Top(t).pc = "notify"
    /\ LET f == Top(t)
           l == f.listeners[f.j]
           c == f.cleanups[f.i]
       IN  IF ArgsPassed(f.event) = ArgsTaken(l, f.event)
           THEN /\ stack' = SetTop(t, [f EXCEPT !.pc = "callback",
                        !.log = Append(@, LogEntry(f.event, c, f.j, f.out.value))])
                /\ UNCHANGED result
           ELSE IF DispatchCatches("TypeError")
           THEN /\ stack' = SetTop(t, NextListener([f EXCEPT
                        !.log = Append(@, LogEntry("print_exc", c, f.j, "TypeError"))]))
                /\ UNCHANGED result
           ELSE Propagate(t, "TypeError")
    /\ UNCHANGED <<instances, cleanups, listeners, next_cleanup_id, lock,
                   global_listeners, global_lock, nruns, ndetach, hist>>

\* The callback of listener j returns or raises: `if func(...): result =
\* True`, or the except clause prints the exception.
CallbackEnds(t) ==
    /\ stack[t] # <<>>
    /\ Top(t).pc = "callback"
    /\ LET f == Top(t)
           l == f.listeners[f.j]
           c == f.cleanups[f.i]
       IN  IF l.beh = "raise"
           THEN IF DispatchCatches("ListenerError")
                THEN /\ stack' = SetTop(t, NextListener([f EXCEPT
                             !.log = Append(@, LogEntry("print_exc", c, f.j, "ListenerError"))]))
                     /\ UNCHANGED result
                ELSE Propagate(t, "ListenerError")
           ELSE /\ stack' = SetTop(t, NextListener([f EXCEPT
                        !.res = @ \/ (l.beh = "skip" /\ f.event = "starting")]))
                /\ UNCHANGED result
    /\ UNCHANGED <<instances, cleanups, listeners, next_cleanup_id, lock,
                   global_listeners, global_lock, nruns, ndetach, hist>>

\* ------------------------------------------------------ _execute_cleanup
\* retval = cleanup.run(): the record's function is called.
ExecCleanup(t) ==
    /\ stack[t] # <<>>
    /\ Top(t).pc = "exec"
    /\ LET f == Top(t)
           c == f.cleanups[f.i]
       IN  /\ stack' = SetTop(t, [f EXCEPT !.pc = "action",
                   !.log = Append(@, LogEntry("run", c, 0, <<c.args, c.kwargs>>))])
           /\ hist' = [hist EXCEPT ![c].calls = @ + 1]
    /\ UNCHANGED <<instances, cleanups, listeners, next_cleanup_id, lock,
                   global_listeners, global_lock, result, nruns, ndetach>>

\* The function returns (else: listeners.completed(cleanup, retval)) or
\* raises (except: listeners.failed(cleanup, sys.exc_info())).
ActionEnds(t) ==
    /\ stack[t] # <<>>
    /\ Top(t).pc = "action"
    /\ LET f == Top(t)
           out == CleanupRun(f.cleanups[f.i])
       IN  IF out.kind = "return"
           THEN /\ stack' = SetTop(t, Dispatch([f EXCEPT !.out = out], "completed"))
                /\ UNCHANGED result
           ELSE IF ExecuteCatches(out.value)
           THEN /\ stack' = SetTop(t, Dispatch([f EXCEPT !.out = out], "failed"))
                /\ UNCHANGED result
           ELSE Propagate(t, out.value)
    /\ UNCHANGED <<instances, cleanups, listeners, next_cleanup_id, lock,
                   global_listeners, global_lock, nruns, ndetach, hist>>

\* The for loop of run() is over: run() returns None.
RunReturn(t) ==
    /\ stack[t] # <<>>
    /\ Top(t).pc = "done"
    /\ stack' = [stack EXCEPT ![t] = SubSeq(@, 1, Len(@) - 1)]
    /\ result' = Returned(t, "run", "-", "None")
    /\ UNCHANGED <<instances, cleanups, listeners, next_cleanup_id, lock,
                   global_listeners, global_lock, nruns, ndetach, hist>>

\* ------------------------------------------------------------ listeners
\* add_listener(listener): self.listeners.append(listener), no lock.
AddListener(t, r, l) ==
    /\ InUserCode(t)
    /\ r \in instances
    /\ Len(listeners[r]) < MaxListeners
    /\ listeners' = [listeners EXCEPT ![r] = ListAppend(@, l)]
    /\ result' = Returned(t, "add_listener", "-", "None")
    /\ UNCHANGED <<instances, cleanups, next_cleanup_id, lock, global_listeners,
                   global_lock, stack, nruns, ndetach, hist>>

\* add_global_listener(listener): under cls.global_lock,
\* cls.global_listeners.append(listener).
AddGlobalListener(t, l) ==
    /\ InUserCode(t)
    /\ Len(global_listeners) < MaxListeners
    /\ global_lock = NoThread
    /\ global_listeners' = ListAppend(global_listeners, l)
    /\ result' = Returned(t, "add_global_listener", "-", "None")
    /\ UNCHANGED <<instances, cleanups, listeners, next_cleanup_id, lock,
                   global_lock, stack, nruns, ndetach, hist>>

\* remove_listener(listener): self.listeners.remove(listener), no lock; the
\* ValueError of list.remove reaches the caller.
RemoveListener(t, r, l) ==
    /\ InUserCode(t)
    /\ r \in instances
    /\ LET rm == ListRemove(listeners[r], l)
       IN  /\ listeners' = [listeners EXCEPT ![r] = rm.list]
           /\ result' = IF rm.ok THEN Returned(t, "remove_listener", "-", "None")
                        ELSE Raised(t, "remove_listener", "-", "ValueError")
    /\ UNCHANGED <<instances, cleanups, next_cleanup_id, lock, global_listeners,
                   global_lock, stack, nruns, ndetach, hist>>

\* remove_global_listener(listener): under cls.global_lock,
\* cls.global_listeners.remove(listener).
RemoveGlobalListener(t, l) ==
    /\ InUserCode(t)
    /\ global_lock = NoThread
    /\ LET rm == ListRemove(global_listeners, l)
       IN  /\ global_listeners' = rm.list
           /\ result' = IF rm.ok THEN Returned(t, "remove_global_listener", "-", "None")
                        ELSE Raised(t, "remove_global_listener", "-", "ValueError")
    /\ UNCHANGED <<instances, cleanups, listeners, next_cleanup_id, lock,
                   global_lock, stack, nruns, ndetach, hist>>

\* Cleanups(): __init__ gives the new registry an empty pending sequence, no
\* listeners, the id counter 0 and a free lock.
NewRegistry(t, r) ==
    /\ InUserCode(t)
    /\ r \notin instances
    /\ instances' = instances \cup {r}
    /\ cleanups' = [cleanups EXCEPT ![r] = <<>>]
    /\ listeners' = [listeners EXCEPT ![r] = <<>>]
    /\ next_cleanup_id' = [next_cleanup_id EXCEPT ![r] = 0]
    /\ lock' = [lock EXCEPT ![r] = NoThread]
    /\ result' = Returned(t, "Cleanups", "-", r)
    /\ UNCHANGED <<global_listeners, global_lock, stack, nruns, ndetach, hist>>

\* ------------------------------------------------- the context manager
\* The frame of a `with registry:` statement: pc "body" while the body
\* runs, "exit" while __exit__ runs.  epoch is history: the detaches of the
\* registry when the scope was entered; i counts the run() calls __exit__
\* made; out is how the body ended.
ScopeFrame(r) == [RunFrame(r) EXCEPT !.pc = "body", !.epoch = ndetach[r]]

\* __enter__(): return self.  The body of the with statement begins.
Enter(t, r) ==
    /\ InUserCode(t)
    /\ r \in instances
    /\ stack' = [stack EXCEPT ![t] = Append(@, ScopeFrame(r))]
    /\ result' = Returned(t, "__enter__", r, r)
    /\ UNCHANGED <<instances, cleanups, listeners, next_cleanup_id, lock,
                   global_listeners, global_lock, nruns, ndetach, hist>>

ExitMut(t, err) ==
    /\ stack[t] # <<>>
    /\ Top(t).pc = "body"
    /\ LET f == Top(t)
           r == f.reg
           g == [f EXCEPT !.pc = "exit",
                          !.out = [kind |-> IF err = "-" THEN "return" ELSE "raise",
                                   value |-> err]]
       IN  IF err = "-"
           THEN /\ lock[r] = NoThread
                /\ lock' = [lock EXCEPT ![r] = t]
                /\ nruns' = nruns + 1
                /\ stack' = [stack EXCEPT ![t] =
                       Append(Append(SubSeq(@, 1, Len(@) - 1), [g EXCEPT !.i = @ + 1]),
                              RunFrame(r))]
           ELSE /\ stack' = SetTop(t, g)
                /\ UNCHANGED <<lock, nruns>>
    /\ UNCHANGED <<instances, cleanups, listeners, next_cleanup_id,
                   global_listeners, global_lock, result, ndetach, hist>>

\* The body ends, normally (err = "-") or with the exception err, and
\* __exit__(exc_type, exc_val, exc_tb) is called: self.run(), which enters `with
\* self.lock:` of _get_cleanups_and_listeners_for_execution.
Exit(t, err) ==
    /\ stack[t] # <<>>
    /\ Top(t).pc = "body"
    /\ LET f == Top(t)
           r == f.reg
           g == [f EXCEPT !.pc = "exit", !.i = @ + 1,
                          !.out = [kind |-> IF err = "-" THEN "return" ELSE "raise",
                                   value |-> err]]
       IN  /\ lock[r] = NoThread
           /\ lock' = [lock EXCEPT ![r] = t]
           /\ nruns' = nruns + 1
           /\ stack' = [stack EXCEPT ![t] =
                  Append(Append(SubSeq(@, 1, Len(@) - 1), g), RunFrame(r))]
    /\ UNCHANGED <<instances, cleanups, listeners, next_cleanup_id,
                   global_listeners, global_lock, result, ndetach, hist>>

\* run() has returned and __exit__ returns None: the with statement ends,
\* and an exception of the body goes on to its caller.
ExitReturn(t) ==
    /\ stack[t] # <<>>
    /\ Top(t).pc = "exit"
    /\ stack' = [stack EXCEPT ![t] = SubSeq(@, 1, Len(@) - 1)]
    /\ result' = IF Top(t).out.kind = "raise"
                 THEN Raised(t, "with", Top(t).reg, Top(t).out.value)
                 ELSE Returned(t, "with", Top(t).reg, "None")
    /\ UNCHANGED <<instances, cleanups, listeners, next_cleanup_id, lock,
                   global_listeners, global_lock, nruns, ndetach, hist>>

\* ------------------------------------------------------- specifications
\* Spec: two threads on the module-level registry "r1".  Thread "t1"
\* registers, removes, clears and runs, also from inside the functions that
\* run() executes; thread "t2" registers and runs from its own code,
\* concurrently.  No listeners are registered.
Next ==
    \/ Add("t1", "r1", "f_ok", <<>>, {})
    \/ AddToFront("t1", "r1", "f_ok", <<>>, {})
    \/ \E c \in Made : Remove("t1", "r1", c)
    \/ Clear("t1", "r1")
    \/ CallRun("t1", "r1")
    \/ /\ stack["t2"] = <<>>
       /\ \/ Add("t2", "r1", "f_ok", <<>>, {})
          \/ CallRun("t2", "r1")
    \/ \E t \in Threads :
          \/ RunDetach(t)
          \/ RunGlobalAcquire(t)
          \/ RunGlobalSnapshot(t)
          \/ ExecCleanup(t)
          \/ ActionEnds(t)
          \/ RunReturn(t)

Spec == Init /\ [][Next]_vars

\* The listeners SpecNotify registers: the tests' helper with callbacks that
\* return None, ask to skip, or raise; and an instance of a CleanupListener
\* subclass such as DebugCleanupListener, or one that overrides starting to
\* return True.
NotifyListeners ==
    {Listener("attr", "none"), Listener("attr", "skip"), Listener("attr", "raise"),
     Listener("method", "none"), Listener("method", "skip")}

\* The listeners SpecNotify registers process-wide.
GlobalNotifyListeners == {Listener("attr", "none"), Listener("attr", "raise")}

\* SpecNotify: one thread on the module-level registry.  It registers
\* listeners (one on the instance, one process-wide), then records whose functions
\* return or raise, also from inside the functions and callbacks that run()
\* executes, and calls run() from its own code.
NextNotify ==
    \/ \E func \in {"f_ok", "f_raise", "f_exit"} : Add("t1", "r1", func, <<>>, {})
    \/ /\ next_cleanup_id["r1"] = 0
       /\ nruns = 0
       /\ listeners["r1"] = <<>>
       /\ \E l \in NotifyListeners : AddListener("t1", "r1", l)
    \/ /\ next_cleanup_id["r1"] = 0
       /\ nruns = 0
       /\ global_listeners = <<>>
       /\ \E l \in GlobalNotifyListeners : AddGlobalListener("t1", l)
    \/ /\ stack["t1"] = <<>>
       /\ CallRun("t1", "r1")
    \/ RunDetach("t1")
    \/ RunGlobalAcquire("t1")
    \/ RunGlobalSnapshot("t1")
    \/ Notify("t1")
    \/ CallbackEnds("t1")
    \/ ExecCleanup("t1")
    \/ ActionEnds("t1")
    \/ RunReturn("t1")

SpecNotify == Init /\ [][NextNotify]_vars

\* SpecGlobal: one thread and two registries, the module-level one and one
\* it constructs.  It registers process-wide listeners and instance
\* listeners of "r1" (none of "r2"), then records on both registries (a
\* function that returns on "r1", one that raises on "r2"), and then calls
\* run() on them from its own code.
NextGlobal ==
    \/ NewRegistry("t1", "r2")
    \/ /\ nruns = 0
       /\ \A r \in Registries : next_cleanup_id[r] = 0
       /\ \/ \E l \in {Listener("attr", "none"), Listener("method", "none")} :
                AddGlobalListener("t1", l)
          \/ \E l \in {Listener("attr", "none"), Listener("attr", "raise")} :
                AddListener("t1", "r1", l)
    \/ /\ nruns = 0
       /\ \/ Add("t1", "r1", "f_ok", <<>>, {})
          \/ Add("t1", "r2", "f_raise", <<>>, {})
    \/ /\ stack["t1"] = <<>>
       /\ \E r \in Registries : CallRun("t1", r)
    \/ RunDetach("t1")
    \/ RunGlobalAcquire("t1")
    \/ RunGlobalSnapshot("t1")
    \/ Notify("t1")
    \/ CallbackEnds("t1")
    \/ ExecCleanup("t1")
    \/ ActionEnds("t1")
    \/ RunReturn("t1")

SpecGlobal == Init /\ [][NextGlobal]_vars

\* The listeners SpecSnapshot registers and unregisters on the instance.
SnapshotListeners == {Listener("attr", "none"), Listener("method", "none")}

\* SpecSnapshot: thread "t1" registers listeners and records on the
\* module-level registry and then calls run().  While the run() is inside
\* a function or a callback, thread "t2" adds and removes instance
\* listeners, and "t1" adds and removes process-wide listeners from inside
\* that function or callback.
NextSnapshot ==
    \/ /\ stack["t1"] = <<>>
       /\ nruns = 0
       /\ \/ Add("t1", "r1", "f_ok", <<>>, {})
          \/ CallRun("t1", "r1")
          \/ AddListener("t1", "r1", Listener("attr", "none"))
          \/ AddGlobalListener("t1", Listener("attr", "none"))
    \/ /\ stack["t1"] # <<>>
       /\ InUserCode("t1")
       /\ \/ \E l \in SnapshotListeners : AddListener("t2", "r1", l)
          \/ \E l \in SnapshotListeners : RemoveListener("t2", "r1", l)
          \/ AddGlobalListener("t1", Listener("attr", "none"))
          \/ RemoveGlobalListener("t1", Listener("attr", "none"))
    \/ RunDetach("t1")
    \/ RunGlobalAcquire("t1")
    \/ RunGlobalSnapshot("t1")
    \/ Notify("t1")
    \/ CallbackEnds("t1")
    \/ ExecCleanup("t1")
    \/ ActionEnds("t1")
    \/ RunReturn("t1")

SpecSnapshot == Init /\ [][NextSnapshot]_vars

\* The arguments SpecArgs binds: two positional ones and a named one; the
\* same values in the other order under the other name.
BoundArgs ==
    {<< <<"x", "y">>, {<<"a", "x">>} >>, << <<"y", "x">>, {<<"b", "x">>} >>}

\* SpecArgs: one thread on the module-level registry with a listener.  It
\* registers records of a function that returns the arguments it was called
\* with, binding different positional and named arguments, also from inside
\* the functions and callbacks run() executes, and from its own code removes
\* records, clears, and calls run().
NextArgs ==
    \/ /\ listeners["r1"] = <<>>
       /\ next_cleanup_id["r1"] = 0
       /\ AddListener("t1", "r1", Listener("attr", "none"))
    \/ /\ listeners["r1"] # <<>>
       /\ \E b \in BoundArgs :
              \/ Add("t1", "r1", "f_args", b[1], b[2])
              \/ AddToFront("t1", "r1", "f_args", b[1], b[2])
    \/ /\ listeners["r1"] # <<>>
       /\ stack["t1"] = <<>>
       /\ \/ \E c \in Made : Remove("t1", "r1", c)
          \/ Clear("t1", "r1")
          \/ CallRun("t1", "r1")
    \/ RunDetach("t1")
    \/ RunGlobalAcquire("t1")
    \/ RunGlobalSnapshot("t1")
    \/ Notify("t1")
    \/ CallbackEnds("t1")
    \/ ExecCleanup("t1")
    \/ ActionEnds("t1")
    \/ RunReturn("t1")

SpecArgs == Init /\ [][NextArgs]_vars

\* SpecScope: one thread uses the module-level registry as the context
\* manager of with statements, one after the other.  It registers records,
\* before the statement, in its body and from inside the functions run()
\* executes, and leaves the body normally or with an exception.
NextScope ==
    \/ /\ stack["t1"] = <<>>
       /\ nruns < MaxRuns
       /\ Enter("t1", "r1")
    \/ \E func \in {"f_ok", "f_raise"} :
          \/ Add("t1", "r1", func, <<>>, {})
          \/ AddToFront("t1", "r1", func, <<>>, {})
    \/ \E err \in {"-", "BodyError"} : Exit("t1", err)
    \/ RunDetach("t1")
    \/ RunGlobalAcquire("t1")
    \/ RunGlobalSnapshot("t1")
    \/ ExecCleanup("t1")
    \/ ActionEnds("t1")
    \/ RunReturn("t1")
    \/ ExitReturn("t1")

SpecScope == Init /\ [][NextScope]_vars

\* The paths SpecSugar registers for deletion.
Paths == {"p1", "p2"}

\* SpecSugar: one thread on the module-level registry registers the
\* deletion of files and directory trees, through add and through
\* add_unlink / add_rmtree, also from inside the functions run() executes,
\* and from its own code removes records and calls run().
NextSugar ==
    \/ \E path \in Paths :
          \/ Add("t1", "r1", "os.unlink", <<path>>, {})
          \/ Add("t1", "r1", "shutil.rmtree", <<path>>, {})
          \/ AddUnlink("t1", "r1", path)
          \/ AddRmtree("t1", "r1", path)
    \/ /\ stack["t1"] = <<>>
       /\ \/ \E c \in Made : Remove("t1", "r1", c)
          \/ CallRun("t1", "r1")
    \/ RunDetach("t1")
    \/ RunGlobalAcquire("t1")
    \/ RunGlobalSnapshot("t1")
    \/ ExecCleanup("t1")
    \/ ActionEnds("t1")
    \/ RunReturn("t1")

SpecSugar == Init /\ [][NextSugar]_vars

\* ------------------------------------------------------ Cleanup.__init__
\* The objects a caller hands to Cleanup(cleanups, id, func, args, kwargs)
\* as args and kwargs.  kind is the type of the object: "list", "tuple",
\* "dict", or "int" / "none" for 5 / None, which are not iterable.  items
\* is what the object holds: the elements of a list or tuple in order, the
\* <<key, value>> items of a dict.
Object(kind, items) == [kind |-> kind, items |-> items]

\* An element of a list handed over as kwargs.  n = 2: a (k, v) pair;
\* n = 1: a 1-tuple (k,); n = 0: a number, which is no sequence.
Element(n, k, v) == [n |-> n, k |-> k, v |-> v]

SeqsUpTo(S, n) == UNION {[1..m -> S] : m \in 0..n}

\* The objects SpecInit hands over as args.
ArgsObjects ==
    {Object(kind, items) : kind \in {"list", "tuple"}, items \in SeqsUpTo({"x", "y"}, MaxLen)}
        \cup {Object("int", <<>>), Object("none", <<>>)}

Elements ==
    {Element(2, k, v) : k \in {"a", "b"}, v \in {"x"}}
        \cup {Element(2, "a", "y"), Element(1, "a", "-"), Element(0, "-", "-")}

\* The dicts SpecInit hands over as kwargs.
KwargsDicts ==
    {Object("dict", items) : items \in
        {d \in SUBSET ({"a", "b"} \X {"x", "y"}) : \A p, q \in d : p[1] = q[1] => p = q}}

\* The other objects SpecInit hands over as kwargs: lists of pairs and of
\* other elements, a tuple of pairs, a number and None.
KwargsObjects ==
    {Object("list", items) : items \in SeqsUpTo(Elements, MaxLen)}
        \cup {Object("tuple", <<Element(2, "a", "x")>>),
              Object("int", <<>>), Object("none", <<>>)}

tupleMut(a) == [ok |-> TRUE, value |-> a.items, same |-> TRUE, exc |-> "-"]

\* tuple(args): a new tuple of the elements of an iterable, the object itself
\* when it is a tuple already; TypeError when the object is not iterable.
tuple(a) ==
    IF a.kind \in {"int", "none"}
    THEN [ok |-> FALSE, value |-> <<>>, same |-> FALSE, exc |-> "TypeError"]
    ELSE [ok |-> TRUE, value |-> a.items, same |-> a.kind = "tuple", exc |-> "-"]

RECURSIVE DictUpdate(_, _)

\* dict(iterable): the elements are taken in order; each must be a sequence
\* (else TypeError) of length 2 (else ValueError); a key that comes again
\* replaces the item of the key.
DictUpdate(d, items) ==
    IF items = <<>> THEN [ok |-> TRUE, value |-> d, same |-> FALSE, exc |-> "-"]
    ELSE LET e == Head(items)
         IN  IF e.n = 0
             THEN [ok |-> FALSE, value |-> {}, same |-> FALSE, exc |-> "TypeError"]
             ELSE IF e.n # 2
             THEN [ok |-> FALSE, value |-> {}, same |-> FALSE, exc |-> "ValueError"]
             ELSE DictUpdate({p \in d : p[1] # e.k} \cup {<<e.k, e.v>>}, Tail(items))

\* dict(kwargs): a new dict with the items of a mapping, or built from an
\* iterable of key/value pairs; TypeError when the object is not iterable.
dict(k) ==
    IF k.kind \in {"int", "none"}
    THEN [ok |-> FALSE, value |-> {}, same |-> FALSE, exc |-> "TypeError"]
    ELSE IF k.kind = "dict"
    THEN [ok |-> TRUE, value |-> k.items, same |-> FALSE, exc |-> "-"]
    ELSE DictUpdate({}, k.items)

\* What the caller of Cleanup(...) gave and what those objects hold now.
Given(a, k) == [args |-> a, kwargs |-> k, now |-> [args |-> a, kwargs |-> k]]

\* Cleanup(cleanups, id, func, args, kwargs) called directly:
\* self.args = tuple(args), then self.kwargs = dict(kwargs); an exception of
\* either leaves __init__.  `shares` names the attributes that are the very
\* object the caller gave.
Construct(t, a, k) ==
    /\ stack[t] = <<>>
    /\ LET ta == tuple(a)
           dk == dict(k)
       IN  result' =
             IF ~ta.ok THEN Raised(t, "Cleanup", Given(a, k), ta.exc)
             ELSE IF ~dk.ok THEN Raised(t, "Cleanup", Given(a, k), dk.exc)
             ELSE Returned(t, "Cleanup", Given(a, k),
                     [cleanup |-> Cleanup("r1", 1, "f_args", ta.value, dk.value),
                      shares |-> {n \in {"args", "kwargs"} :
                                     (n = "args" /\ ta.same) \/ (n = "kwargs" /\ dk.same)}])
    /\ UNCHANGED <<instances, cleanups, listeners, next_cleanup_id, lock,
                   global_listeners, global_lock, stack, nruns, ndetach, hist>>

\* What a caller appends to a list, or sets in a dict, of its own.
Grown(n, o) ==
    CASE o.kind = "dict" -> Object("dict", {p \in o.items : p[1] # "a"} \cup {<<"a", "z">>})
      [] o.kind # "dict" /\ n = "kwargs" -> Object(o.kind, Append(o.items, Element(2, "b", "z")))
      [] OTHER -> Object(o.kind, Append(o.items, "z"))

\* After Cleanup(...) returned, the caller changes the list or the dict it
\* gave; an attribute of the record that is that very object changes with it.
Mutate(t, n) ==
    /\ result.op = "Cleanup"
    /\ result.kind = "return"
    /\ result.thread = t
    /\ result.arg.now[n] = result.arg[n]
    /\ result.arg[n].kind \in {"list", "dict"}
    /\ LET o == Grown(n, result.arg.now[n])
           c == result.value.cleanup
       IN  result' = [result EXCEPT
               !.arg.now[n] = o,
               !.value.cleanup =
                   IF n \in result.value.shares
                   THEN IF n = "args" THEN [c EXCEPT !.args = o.items]
                        ELSE [c EXCEPT !.kwargs = o.items]
                   ELSE c]
    /\ UNCHANGED <<instances, cleanups, listeners, next_cleanup_id, lock,
                   global_listeners, global_lock, stack, nruns, ndetach, hist>>

\* SpecInit: one thread constructs a Cleanup object directly, with any
\* object of ArgsObjects as args and any object of KwargsDicts and
\* KwargsObjects as kwargs, and afterwards changes the objects it gave.
NextInit ==
    \/ /\ result = NoResult
       /\ \E a \in ArgsObjects :
             \/ \E k \in KwargsDicts : Construct("t1", a, k)
             \/ \E k \in KwargsObjects : Construct("t1", a, k)
    \/ \E n \in {"args", "kwargs"} : Mutate("t1", n)

SpecInit == Init /\ [][NextInit]_vars

\* SpecReentrant: thread "t1" registers a process-wide listener and records
\* on the module-level registry and calls run(); from inside the functions
\* and callbacks that run() executes it calls the registry again: add,
\* add_to_front, remove, clear, len, contains, run, add_global_listener and
\* remove_global_listener.  Thread "t2" registers records at any time.
NextReentrant ==
    \/ /\ stack["t1"] = <<>>
       /\ nruns = 0
       /\ \/ /\ global_listeners = <<>>
             /\ AddGlobalListener("t1", Listener("attr", "none"))
          \/ Add("t1", "r1", "f_ok", <<>>, {})
    \/ /\ Len(stack["t1"]) = 1
       /\ \/ Add("t1", "r1", "f_ok", <<>>, {})
          \/ AddToFront("t1", "r1", "f_ok", <<>>, {})
          \/ \E c \in Made : Remove("t1", "r1", c)
          \/ Clear("t1", "r1")
          \/ LenOf("t1", "r1")
          \/ \E c \in Made : Contains("t1", "r1", c)
          \/ /\ global_listeners = <<>>
             /\ AddGlobalListener("t1", Listener("attr", "none"))
          \/ RemoveGlobalListener("t1", Listener("attr", "none"))
    \/ /\ Len(stack["t1"]) <= 1
       /\ CallRun("t1", "r1")
    \/ Add("t2", "r1", "f_ok", <<>>, {})
    \/ RunDetach("t1")
    \/ RunGlobalAcquire("t1")
    \/ RunGlobalSnapshot("t1")
    \/ Notify("t1")
    \/ CallbackEnds("t1")
    \/ ExecCleanup("t1")
    \/ ActionEnds("t1")
    \/ RunReturn("t1")

SpecReentrant == Init /\ [][NextReentrant]_vars

\* The listeners SpecSkip registers: the tests' helper with callbacks that
\* return None, ask to skip, or raise, and an instance of a CleanupListener
\* subclass that overrides starting to return True.
SkipListeners ==
    {Listener("attr", "none"), Listener("attr", "skip"), Listener("attr", "raise"),
     Listener("method", "skip")}

\* SpecSkip: one thread registers instance listeners on the module-level
\* registry, in any order, then records, and calls run() from its own code.
NextSkip ==
    \/ /\ next_cleanup_id["r1"] = 0
       /\ nruns = 0
       /\ \E l \in SkipListeners : AddListener("t1", "r1", l)
    \/ /\ stack["t1"] = <<>>
       /\ listeners["r1"] # <<>>
       /\ \/ Add("t1", "r1", "f_ok", <<>>, {})
          \/ CallRun("t1", "r1")
    \/ RunDetach("t1")
    \/ RunGlobalAcquire("t1")
    \/ RunGlobalSnapshot("t1")
    \/ Notify("t1")
    \/ CallbackEnds("t1")
    \/ ExecCleanup("t1")
    \/ ActionEnds("t1")
    \/ RunReturn("t1")

SpecSkip == Init /\ [][NextSkip]_vars

\* ------------------------------------------------------------- properties
\* The run() frames alive: thread and depth.
FrameIds == {p \in Threads \X (1..MaxRuns) : p[2] <= Len(stack[p[1]])}

Frame(p) == stack[p[1]][p[2]]

\* The frames that have detached.
Detached == {p \in FrameIds : Frame(p).pc # "detach"}

IsRun(e) == e.ev = "run"

\* The records whose function a run() call has called so far, in order.
Ran(f) == LET runs == SelectSeq(f.log, IsRun) IN [k \in 1..Len(runs) |-> runs[k].c]

\* C1 (as stated): every run() calls the functions of its records in
\* exactly the reverse order of their registration, whether they were
\* registered with add or with add_to_front.  Ids are handed out in
\* registration order.
C1_ReverseRegistrationOrder ==
    \A p \in Detached :
        \A a, b \in 1..Len(Ran(Frame(p))) :
            a < b => Ran(Frame(p))[a].id > Ran(Frame(p))[b].id

\* C1 (amended): every run() calls the functions of its records in exactly
\* the reverse of their order in the pending sequence it detached, all of
\* them by the time it is done; that is the reverse order of registration
\* when all of them were registered with add.
C1_ReversePendingOrder ==
    \A p \in Detached :
        LET f == Frame(p)
            n == Len(f.snapshot)
        IN  /\ Len(Ran(f)) <= n
            /\ \A k \in 1..Len(Ran(f)) : Ran(f)[k] = f.snapshot[n + 1 - k]
            /\ f.pc = "done" => Len(Ran(f)) = n
            /\ (\A c \in Range(f.snapshot) : hist[c].via = "add")
                 => \A a, b \in 1..Len(Ran(f)) :
                        a < b => Ran(f)[a].id > Ran(f)[b].id

\* C1 witness: a run() is done with two records, one registered with add
\* and one with add_to_front.
C1_Witness ==
    \E p \in Detached :
        /\ Frame(p).pc = "done"
        /\ Len(Ran(Frame(p))) >= 2
        /\ \E c, d \in Range(Frame(p).snapshot) :
              hist[c].via = "add" /\ hist[d].via = "add_to_front"

\* The sequences of records the program holds: the pending sequence of each
\* registry and the sequence each run() detached.
HeldSequences ==
    {cleanups[r] : r \in instances} \cup {Frame(p).snapshot : p \in Detached}

\* C2: a record registered with add_to_front goes to position 0 of the
\* pending sequence: whatever stands before it was put to the front after
\* it.  So a run() calls its function after the function of every record of
\* that run registered before it.
C2_FrontExecutedLast ==
    /\ \A s \in HeldSequences :
          \A a, b \in 1..Len(s) :
              a < b /\ hist[s[b]].via = "add_to_front"
                  => hist[s[a]].via = "add_to_front" /\ s[a].id > s[b].id
    /\ \A p \in Detached :
          \A a, b \in 1..Len(Ran(Frame(p))) :
              hist[Ran(Frame(p))[a]].via = "add_to_front"
              /\ Ran(Frame(p))[b].id < Ran(Frame(p))[a].id
                  => b < a

\* C2 witness: a run() is done whose last call was to a record registered
\* with add_to_front, after a record that was pending when it was inserted.
C2_Witness ==
    \E p \in Detached :
        LET f == Frame(p)
            n == Len(Ran(f))
        IN  /\ f.pc = "done"
            /\ n >= 2
            /\ hist[Ran(f)[n]].via = "add_to_front"
            /\ Ran(f)[1].id < Ran(f)[n].id

\* The records of registry r in the frames of run() calls.
InFrames(c) == \E p \in Detached : ListContains(Frame(p).cleanups, c)

\* C3: a record whose remove returned is in no pending sequence and in no
\* run(), and its function is never called; a run() that is done has called
\* the function of every record that was registered and had not left the
\* registry when it detached.
C3_RemovedNeverInvoked ==
    /\ \A c \in Made :
          hist[c].fate = "removed"
              => /\ hist[c].calls = 0
                 /\ ~InFrames(c)
                 /\ ~ListContains(cleanups[c.cleanups], c)
    /\ \A p \in Detached :
          Frame(p).pc = "done" => \A c \in Frame(p).expect : hist[c].calls >= 1

\* C3 witness: a run() is done that has called a record's function, and a
\* record registered before its detach was removed.
C3_Witness ==
    \E p \in Detached :
        /\ Frame(p).pc = "done"
        /\ Frame(p).expect # {}
        /\ \E c \in Made :
              hist[c].fate = "removed" /\ hist[c].epoch < Frame(p).epoch

\* C4: remove of a record that is not pending (removed, cleared or detached
\* before) raises ValueError to its caller and changes neither the pending
\* sequences, nor the id counters, nor the listener collections.
C4_RemoveNotPendingFails ==
    [][\A t \in Threads : \A r \in Registries : \A c \in Made :
          Remove(t, r, c) /\ hist[c].fate # "pending"
              => /\ result' = Raised(t, "remove", c, "ValueError")
                 /\ UNCHANGED <<cleanups, next_cleanup_id, listeners,
                                global_listeners>>]_vars

\* C4 witness: remove has raised ValueError for a record that a run() had
\* detached.
C4_Witness ==
    /\ result.op = "remove"
    /\ result.kind = "raise"
    /\ hist[result.arg].fate = "detached"

\* The records a run() call has processed: their function was called.
Processed(f) == Range(Ran(f))

\* C5: the pending sequence a run() detaches holds exactly the records that
\* were registered before the detach and had not left the registry (by
\* remove, by clear or by an earlier detach), each once; the run() processes
\* no other record, and all of them by the time it is done.
C5_RunProcessesExactlyPending ==
    \A p \in Detached :
        LET f == Frame(p)
        IN  /\ Range(f.snapshot) = f.expect
            /\ Len(f.snapshot) = Cardinality(f.expect)
            /\ Range(f.cleanups) = f.expect
            /\ Processed(f) \subseteq f.expect
            /\ f.pc = "done" => Processed(f) = f.expect

\* C5 witness: a run() is done that processed a record while another record
\* of the registry, removed, cleared or registered after the detach, was not
\* processed by it.
C5_Witness ==
    \E p \in Detached :
        /\ Frame(p).pc = "done"
        /\ Processed(Frame(p)) # {}
        /\ \E c \in Made : c.cleanups = Frame(p).reg /\ c \notin Processed(Frame(p))

\* C6: a run() holds only records registered before its detach (and after
\* the detach before it); a record registered after the detach stays in the
\* pending sequence until it is removed, cleared or detached, and the run()
\* whose detach comes next holds it and has called its function by the time
\* it is done.
C6_LateRegistrationForNextRun ==
    /\ \A p \in Detached :
          \A c \in Range(Frame(p).cleanups) \cup Processed(Frame(p)) :
              hist[c].epoch = Frame(p).epoch - 1
    /\ \A c \in Made :
          hist[c].fate = "pending" => ListContains(cleanups[c.cleanups], c)
    /\ \A p \in Detached :
          \A c \in Made :
              /\ c.cleanups = Frame(p).reg
              /\ hist[c].fate = "detached"
              /\ hist[c].epoch = Frame(p).epoch - 1
              => /\ ListContains(Frame(p).cleanups, c)
                 /\ Frame(p).pc = "done" => hist[c].calls = 1

\* C6 witness: a run() is done that has called the function of a record
\* registered after an earlier detach.
C6_Witness ==
    \E p \in Detached :
        /\ Frame(p).pc = "done"
        /\ Frame(p).epoch >= 2
        /\ \E c \in Processed(Frame(p)) : hist[c].epoch >= 1 /\ hist[c].calls = 1

\* C6 witness of the first half: a record registered after the detach of a
\* run() that is still executing is pending.
C6_WitnessDuringRun ==
    \E p \in Detached :
        /\ Frame(p).pc = "action"
        /\ \E c \in Made :
              /\ c.cleanups = Frame(p).reg
              /\ hist[c].epoch = Frame(p).epoch
              /\ hist[c].fate = "pending"

\* C8: the records of two run() calls are disjoint, a detached record is
\* not pending any more, and no record's function is called more than once.
C8_DetachedSetsDisjoint ==
    /\ \A p, q \in Detached :
          p # q => Range(Frame(p).cleanups) \cap Range(Frame(q).cleanups) = {}
    /\ \A p \in Detached :
          Range(Frame(p).cleanups) \cap Range(cleanups[Frame(p).reg]) = {}
    /\ \A c \in Made : hist[c].calls <= 1

\* C8 witness: two threads are inside run() on the same registry, each with
\* a record it detached.
C8_Witness ==
    \E p, q \in Detached :
        /\ p[1] # q[1]
        /\ Frame(p).reg = Frame(q).reg
        /\ Frame(p).cleanups # <<>>
        /\ Frame(q).cleanups # <<>>

\* C7: a run() whose detach follows an earlier detach of the registry with
\* no registration in between finds the pending sequence empty: it calls no
\* function and no listener.
C7_SecondRunInvokesNothing ==
    \A p \in Detached :
        LET f == Frame(p)
        IN  /\ f.epoch >= 2
            /\ ~\E c \in Made : c.cleanups = f.reg /\ hist[c].epoch = f.epoch - 1
            => f.snapshot = <<>> /\ f.log = <<>>

\* C7 witness: a second run() with listeners is done, nothing was registered
\* since the first one detached, and the first one called a function.
C7_Witness ==
    \E p \in Detached :
        LET f == Frame(p)
        IN  /\ f.pc = "done"
            /\ f.epoch = 2
            /\ f.listeners # <<>>
            /\ ~\E c \in Made : c.cleanups = f.reg /\ hist[c].epoch = 1
            /\ \E c \in Made : c.cleanups = f.reg /\ hist[c].calls = 1

\* A run() is through with the record: it called its function, or a listener
\* asked to skip it.
Handled(f, c) ==
    \E k \in 1..Len(f.log) :
        /\ f.log[k].c = c
        /\ \/ f.log[k].ev = "run"
           \/ /\ f.log[k].ev = "starting"
              /\ f.listeners[f.log[k].l].beh = "skip"

\* C9: no run() call ends with an exception, and a run() that is done is
\* through with every record it detached.
C9_RunNeverRaises ==
    /\ result.op = "run" => result.kind = "return"
    /\ \A p \in Detached :
          Frame(p).pc = "done"
              => \A c \in Range(Frame(p).snapshot) : Handled(Frame(p), c)

\* C9 witness: run() has returned after a function raised and a listener
\* raised.
C9_Witness ==
    /\ result.op = "run"
    /\ result.kind = "return"
    /\ \E c \in Made : c.func \in {"f_raise", "f_exit"} /\ hist[c].calls = 1
    /\ \E k \in 1..Len(listeners["r1"]) : listeners["r1"][k].beh = "raise"

\* The entries of the log of a run() for record c.
Delivered(f, ev, c) == {k \in 1..Len(f.log) : f.log[k].ev = ev /\ f.log[k].c = c}

\* C10: when the function of a record raises, failed reaches every listener
\* of the run() with the exception raised, completed reaches none, and the
\* run() goes on to the next record.
C10_FailedDeliveredToEveryListener ==
    \A p \in Detached :
        LET f == Frame(p)
        IN  \A m \in 1..Len(f.cleanups) :
                LET c == f.cleanups[m]
                IN  /\ m < f.i
                    /\ c \in Processed(f)
                    /\ CleanupRun(c).kind = "raise"
                    => /\ \A j \in 1..Len(f.listeners) :
                             \E k \in Delivered(f, "failed", c) :
                                 f.log[k].l = j /\ f.log[k].x = CleanupRun(c).value
                       /\ Delivered(f, "completed", c) = {}
                       /\ f.pc = "done"
                            => \A n \in (m+1)..Len(f.cleanups) : Handled(f, f.cleanups[n])

\* ------------------------------------------------- notification protocol
Events == {"starting", "completed", "failed"}

\* The frames whose listener snapshot is complete.
Running == {p \in Detached : Frame(p).pc \notin {"global", "global_locked"}}

\* The steps of _execute_cleanup for one record: the starting dispatch, the
\* call of the function, the completed/failed dispatch.
Phase(ev) ==
    CASE ev = "starting" -> 1
      [] ev = "run" -> 2
      [] ev \in {"completed", "failed"} -> 3
      [] OTHER -> 0

CurPhase(f) == IF f.pc \in {"exec", "action"} THEN 2 ELSE Phase(f.event)

\* The run() call has reached the call of listener j for event ev of its
\* m-th record (the call has been made, or has failed to be made).
Due(f, ev, m, j) ==
    \/ m < f.i
    \/ /\ m = f.i
       /\ \/ Phase(ev) < CurPhase(f)
          \/ /\ Phase(ev) = CurPhase(f)
             /\ f.pc \in {"notify", "callback"}
             /\ j < f.j \/ (j = f.j /\ f.pc = "callback")

\* The run() call has made the call of the function of its m-th record, or
\* has gone past it.
RunDue(f, m) == m < f.i \/ (m = f.i /\ (f.pc = "action" \/ CurPhase(f) = 3))

\* _execute_cleanup sends event ev for record c: starting always, completed
\* when its function was called and returned, failed when it raised.
Occurs(f, ev, c) ==
    CASE ev = "starting" -> TRUE
      [] ev = "completed" -> c \in Processed(f) /\ CleanupRun(c).kind = "return"
      [] ev = "failed" -> c \in Processed(f) /\ CleanupRun(c).kind = "raise"

\* The log entries in which listener j was entered with event ev of record c.
Got(f, ev, c, j) == {k \in Delivered(f, ev, c) : f.log[k].l = j}

\* C11: for every record whose function a run() called and every listener
\* of the run(), once the run() is past the record, exactly one of
\* completed and failed has reached the listener for that record, and
\* starting reached it before.
C11_ExactlyOneOutcomePerListener ==
    \A p \in Running :
        LET f == Frame(p)
        IN  \A m \in 1..Len(f.cleanups) : \A j \in 1..Len(f.listeners) :
                LET c == f.cleanups[m]
                    outcomes == Got(f, "completed", c, j) \cup Got(f, "failed", c, j)
                IN  m < f.i /\ c \in Processed(f)
                    => /\ Cardinality(outcomes) = 1
                       /\ \A k \in outcomes :
                             \E ks \in Got(f, "starting", c, j) : ks < k

\* C12: with listeners attached, for every record whose function a run()
\* called and that returned, every listener got starting with the record
\* before the function was called, and completed with the record and the
\* value returned after it.
C12_StartingRunCompleted ==
    \A p \in Running :
        LET f == Frame(p)
        IN  \A m \in 1..Len(f.cleanups) : \A j \in 1..Len(f.listeners) :
                LET c == f.cleanups[m]
                IN  m < f.i /\ c \in Processed(f) /\ CleanupRun(c).kind = "return"
                    => \E ks \in Got(f, "starting", c, j) :
                       \E kr \in Delivered(f, "run", c) :
                       \E kc \in Got(f, "completed", c, j) :
                           /\ ks < kr
                           /\ kr < kc
                           /\ f.log[kc].x = CleanupRun(c).value

\* C13: when a listener of a run() returns a true value from starting, be
\* it an object with plain callables or an instance of a CleanupListener
\* subclass that overrides starting, the run() does not call the record's
\* function and sends neither completed nor failed for it.
C13_SkipSuppressesRecord ==
    \A p \in Running :
        LET f == Frame(p)
        IN  \A m \in 1..Len(f.cleanups) :
                LET c == f.cleanups[m]
                IN  /\ m < f.i
                    /\ \E j \in 1..Len(f.listeners) : f.listeners[j].beh = "skip"
                    => /\ c \notin Processed(f)
                       /\ Delivered(f, "completed", c) = {}
                       /\ Delivered(f, "failed", c) = {}

\* The listeners of a run() whose callbacks raise when they are entered.
Raising(f) ==
    {j \in 1..Len(f.listeners) : f.listeners[j] = Listener("attr", "raise")}

\* The listeners of a run() that ask to skip and are heard.
Skipping(f) ==
    {j \in 1..Len(f.listeners) : f.listeners[j] = Listener("attr", "skip")}

\* C14: in a run() with a listener whose callbacks raise, (a) the function
\* of every record is still called unless a listener asks to skip it, and
\* its outcome reported; (b) every notification still enters every listener
\* whose callable takes the call, those after the raising one included;
\* (c) the run() goes on to the records after it and does not end with the
\* listener's exception.
C14_RaisingListenerPreventsNothing ==
    /\ result.op = "run" => result.kind = "return"
    /\ \A p \in Running :
          LET f == Frame(p)
          IN  Raising(f) # {}
              => /\ \A m \in 1..Len(f.cleanups) :
                       LET c == f.cleanups[m]
                       IN  /\ RunDue(f, m) /\ Skipping(f) = {} => c \in Processed(f)
                           /\ \A j \in 1..Len(f.listeners) : \A ev \in Events :
                                 /\ f.listeners[j].kind = "attr"
                                 /\ Due(f, ev, m, j)
                                 /\ Occurs(f, ev, c)
                                 => Got(f, ev, c, j) # {}
                 /\ f.pc = "done"
                      => \A c \in Range(f.snapshot) : Handled(f, c)

\* C14 witness: a run() is done with two records; its first listener raised
\* in starting and in completed or failed, and the listener after it got
\* all of them.
C14_Witness ==
    \E p \in Running :
        LET f == Frame(p)
        IN  /\ f.pc = "done"
            /\ Len(f.cleanups) >= 2
            /\ Len(f.listeners) >= 2
            /\ 1 \in Raising(f)
            /\ f.listeners[2].kind = "attr"
            /\ \A c \in Range(f.cleanups) :
                  /\ c \in Processed(f)
                  /\ Got(f, "starting", c, 1) # {}
                  /\ Got(f, "starting", c, 2) # {}
                  /\ Got(f, "completed", c, 2) \cup Got(f, "failed", c, 2) # {}

\* The calls dispatch_notifications made or tried to make for record c, in
\* the order of the log.
Calls(f, c) == {k \in 1..Len(f.log) : f.log[k].c = c /\ f.log[k].l > 0}

\* C15: the listeners of a run() are the process-wide listeners in their
\* registration order followed by the instance listeners of the registry in
\* theirs, and every dispatch goes through them in that order: each
\* notification of a record is sent to the listeners one after the other,
\* from the first to the last.
C15_GlobalThenInstanceOrder ==
    \A p \in Running :
        LET f == Frame(p)
            g == Len(global_listeners)
        IN  /\ Len(f.listeners) = g + Len(listeners[f.reg])
            /\ \A j \in 1..Len(f.listeners) :
                  f.listeners[j] = IF j <= g THEN global_listeners[j]
                                   ELSE listeners[f.reg][j - g]
            /\ \A c \in Range(f.cleanups) :
                  \A k1, k2 \in Calls(f, c) :
                      /\ k1 < k2
                      /\ f.log[k1].ev \in Events
                      /\ f.log[k2].ev = f.log[k1].ev
                      => f.log[k1].l < f.log[k2].l
            /\ \A c \in Range(f.cleanups) :
                  \A k \in Calls(f, c) :
                      \/ f.log[k].l = 1
                      \/ \E k0 \in Calls(f, c) :
                            k0 < k /\ f.log[k0].l = f.log[k].l - 1

\* C15 witness: a run() is done in which starting and completed of a record
\* went to two different process-wide listeners and then to two different
\* instance listeners, the last of which got them after the first.
C15_Witness ==
    \E p \in Running :
        LET f == Frame(p)
        IN  /\ f.pc = "done"
            /\ Len(global_listeners) = 2
            /\ global_listeners[1] # global_listeners[2]
            /\ Len(listeners[f.reg]) = 2
            /\ listeners[f.reg][1] # listeners[f.reg][2]
            /\ \E c \in Range(f.cleanups) : \A ev \in {"starting", "completed"} :
                  \E k1 \in Got(f, ev, c, 1) \cup Got(f, ev, c, 2) :
                  \E k3 \in Got(f, ev, c, 3) : \E k4 \in Got(f, ev, c, 4) :
                      k1 < k3 /\ k3 < k4

\* C17: a process-wide listener is notified by the run() of every registry,
\* also of one that never registered it on the instance: for every record
\* whose function a run() called, the listener got exactly one starting and
\* exactly one completed or failed.
C17_GlobalListenerNotifiedByAll ==
    \A p \in Running :
        LET f == Frame(p)
        IN  \A j \in 1..Len(global_listeners) : \A m \in 1..Len(f.cleanups) :
                LET c == f.cleanups[m]
                IN  m < f.i /\ c \in Processed(f)
                    => /\ f.listeners[j] = global_listeners[j]
                       /\ Cardinality(Got(f, "starting", c, j)) = 1
                       /\ Cardinality(Got(f, "completed", c, j)
                                        \cup Got(f, "failed", c, j)) = 1

\* C16: the listener sequence of a run() is the one of its snapshot: no
\* step after the snapshot changes it, whatever is added to or removed from
\* the instance and the process-wide collections meanwhile; for every
\* record the run() calls exactly the listeners of that sequence, each in
\* its turn.
C16_ListenersFixedAtSnapshot ==
    /\ [](\A p \in Running :
            LET f == Frame(p)
            IN  \A m \in 1..Len(f.cleanups) :
                    LET c == f.cleanups[m]
                    IN  /\ \A k \in Calls(f, c) : f.log[k].l <= Len(f.listeners)
                        /\ \A k1, k2 \in Calls(f, c) :
                              /\ k1 < k2
                              /\ f.log[k1].ev \in Events
                              /\ f.log[k2].ev = f.log[k1].ev
                              => f.log[k1].l < f.log[k2].l
                        /\ \A j \in 1..Len(f.listeners) : \A ev \in Events :
                              Due(f, ev, m, j) /\ Occurs(f, ev, c)
                              => (Got(f, ev, c, j) # {}
                                    <=> f.listeners[j].kind = "attr"))
    /\ [][\A p \in Running :
            p[2] <= Len(stack'[p[1]])
                => stack'[p[1]][p[2]].listeners = Frame(p).listeners]_vars

\* C16 witness: a run() is done with two records; since its snapshot a
\* listener it had taken was removed from the instance, another was added,
\* and the process-wide collection changed; the listeners of the snapshot
\* got the notifications of both records.
C16_Witness ==
    \E p \in Running :
        LET f == Frame(p)
        IN  /\ f.pc = "done"
            /\ Len(f.cleanups) = 2
            /\ f.inst # <<>>
            /\ f.inst # listeners[f.reg]
            /\ listeners[f.reg] # <<>>
            /\ f.listeners # global_listeners \o listeners[f.reg]
            /\ Len(f.listeners) # Len(global_listeners) + Len(listeners[f.reg])
            /\ \A c \in Range(f.cleanups) : \A j \in 1..Len(f.listeners) :
                  f.listeners[j].kind = "attr" => Got(f, "completed", c, j) # {}
            /\ \E j \in 1..Len(f.listeners) : f.listeners[j].kind = "attr"

\* The calls of listener j that dispatch_notifications made for record c:
\* the callback was entered, or the call itself failed.
Attempts(f, c, j) ==
    {k \in Calls(f, c) :
        f.log[k].l = j /\ (f.log[k].ev \in Events \/ f.log[k].x = "TypeError")}

\* C18: a run() processes its records one at a time, in the order of its
\* sequence: in the order of what it did, nothing of a record comes after
\* anything of a later record, the steps of one record come as starting,
\* function, completed/failed, and when the run() turns to a record it has
\* called every listener with starting of each earlier record and then
\* either skipped that record or called its function and called every
\* listener with its outcome.
C18_OneRecordAtATime ==
    \A p \in Running :
        LET f == Frame(p)
        IN  /\ \A k1, k2 \in 1..Len(f.log) :
                  k1 < k2
                  => /\ IndexOf(f.cleanups, f.log[k1].c) <= IndexOf(f.cleanups, f.log[k2].c)
                     /\ f.log[k1].c = f.log[k2].c /\ f.log[k2].ev # "print_exc"
                          => Phase(f.log[k1].ev) <= Phase(f.log[k2].ev)
            /\ \A m \in 1..Len(f.cleanups) :
                  (m < f.i \/ \E k \in 1..Len(f.log) : IndexOf(f.cleanups, f.log[k].c) > m)
                  => LET c == f.cleanups[m]
                     IN  /\ Handled(f, c)
                         /\ \A j \in 1..Len(f.listeners) :
                               Cardinality(Attempts(f, c, j))
                                   = IF c \in Processed(f) THEN 2 ELSE 1

\* C18 witness: a run() with listeners is done with two records of which it
\* called the function.
C18_Witness ==
    \E p \in Running :
        LET f == Frame(p)
        IN  /\ f.pc = "done"
            /\ f.listeners # <<>>
            /\ Len(Ran(f)) >= 2
            /\ \E j \in 1..Len(f.listeners) : f.listeners[j].kind = "attr"

\* C19: the record add / add_to_front returns and queues holds the function
\* and the positional and named arguments of the call, unchanged; records
\* are not altered while they are pending or detached, whatever else is
\* registered, removed, cleared or run; and run() calls the function with
\* exactly the arguments of the record: same values, same order, same names.
C19_ArgumentsDeliveredUnchanged ==
    /\ [](/\ \A r \in instances : Range(cleanups[r]) \subseteq Made
          /\ \A c, d \in Made : c.cleanups = d.cleanups /\ c.id = d.id => c = d
          /\ \A p \in Detached :
                LET f == Frame(p)
                IN  /\ Range(f.cleanups) \subseteq Made
                    /\ \A k \in 1..Len(f.log) :
                          LET c == f.log[k].c
                          IN  /\ f.log[k].ev = "run" => f.log[k].x = <<c.args, c.kwargs>>
                              /\ f.log[k].ev = "completed" /\ c.func = "f_args"
                                   => f.log[k].x = <<c.args, c.kwargs>>)
    /\ [][\A t \in Threads : \A r \in instances : \A b \in BoundArgs :
              /\ Add(t, r, "f_args", b[1], b[2])
                  => /\ result'.value.func = "f_args"
                     /\ result'.value.args = b[1]
                     /\ result'.value.kwargs = b[2]
                     /\ cleanups'[r] = Append(cleanups[r], result'.value)
              /\ AddToFront(t, r, "f_args", b[1], b[2])
                  => /\ result'.value.func = "f_args"
                     /\ result'.value.args = b[1]
                     /\ result'.value.kwargs = b[2]
                     /\ cleanups'[r] = <<result'.value>> \o cleanups[r]]_vars

\* C19 witness: a run() is done that called a function with two positional
\* arguments and a named one, bound with add_to_front before another record
\* was registered and removed, and the listener got what the function
\* returned.
C19_Witness ==
    \E p \in Running :
        LET f == Frame(p)
        IN  /\ f.pc = "done"
            /\ \E d \in Made : hist[d].fate = "removed" /\ d.id = 2
            /\ \E k \in 1..Len(f.log) :
                  LET c == f.log[k].c
                  IN  /\ f.log[k].ev = "completed"
                      /\ c.id = 1
                      /\ hist[c].via = "add_to_front"
                      /\ c.args = <<"y", "x">>
                      /\ c.kwargs = {<<"b", "x">>}
                      /\ \E d \in Made : d.args = <<"x", "y">>
                      /\ f.log[k].x = <<c.args, c.kwargs>>

\* The with statements under way: thread and depth of their frames.
Scopes ==
    {p \in {q \in Threads \X (1..(2 * MaxRuns)) : q[2] <= Len(stack[q[1]])} :
        Frame(p).pc \in {"body", "exit"}}

\* The records registered on registry r since its e-th detach.
Since(r, e) == {c \in Made : c.cleanups = r /\ hist[c].epoch = e}

\* C20: __enter__ returns the registry itself; while the body of the with
\* statement runs, run() has not been called and no function of a record
\* of the registry has been called since the scope was entered; leaving the
\* body, normally or with an exception, calls run() exactly once, and when
\* __exit__ is about to return and when the statement has ended, every
\* record queued before or inside the body has had its function called once
\* (a record that a function queues while __exit__ runs is left pending).
C20_ScopeRunsOnceOnExit ==
    /\ result.op = "__enter__" => result.kind = "return" /\ result.value = result.arg
    /\ \A p \in Scopes :
          LET f == Frame(p)
          IN  /\ f.pc = "body"
                  => /\ f.i = 0
                     /\ ndetach[f.reg] = f.epoch
                     /\ \A c \in Since(f.reg, f.epoch) :
                           hist[c].calls = 0 /\ hist[c].fate = "pending"
              /\ f.pc = "exit"
                  => /\ f.i = 1
                     /\ p[2] = Len(stack[p[1]])
                          => /\ ndetach[f.reg] = f.epoch + 1
                             /\ \A c \in Since(f.reg, f.epoch) :
                                   hist[c].calls = 1 /\ hist[c].by = f.epoch + 1
    /\ result.op = "with"
          => \A c \in Made :
                c.cleanups = result.arg /\ hist[c].epoch < ndetach[result.arg]
                    => hist[c].calls = 1 /\ hist[c].fate = "detached"

\* C20 witness: a with statement has ended with the exception of its body,
\* and the functions of two records queued inside the body were called.
C20_Witness ==
    /\ result.op = "with"
    /\ result.kind = "raise"
    /\ stack["t1"] = <<>>
    /\ nruns = 1
    /\ Cardinality({c \in Made : hist[c].calls = 1}) = 2

\* The records registry r has created.
MadeBy(r) == {c \in Made : c.cleanups = r}

\* C23: the ids of the records of one registry are unique and increase in
\* creation order: the registry has made as many records as its counter
\* says, with ids from 1 to the counter, every pending record is one of
\* them and stands once in the pending sequence; a record that is created
\* gets an id above the id of every record the registry created before, be
\* they pending, removed, cleared or run; and the counter never goes back.
C23_IdsUniqueAndIncreasing ==
    /\ [](\A r \in instances :
            /\ Cardinality(MadeBy(r)) = next_cleanup_id[r]
            /\ {c.id : c \in MadeBy(r)} = 1..next_cleanup_id[r]
            /\ Range(cleanups[r]) \subseteq MadeBy(r)
            /\ \A a, b \in 1..Len(cleanups[r]) :
                  a # b => cleanups[r][a].id # cleanups[r][b].id)
    /\ [][/\ \A r \in Registries :
                Len(cleanups'[r]) > Len(cleanups[r])
                    => /\ result'.value \notin Made
                       /\ result'.value.id = next_cleanup_id'[r]
                       /\ \A d \in MadeBy(r) : d.id < result'.value.id
          /\ \A r \in Registries : next_cleanup_id'[r] >= next_cleanup_id[r]
          /\ Made \subseteq DOMAIN hist']_vars

\* C23 witness: a record was created after a record with a smaller id had
\* been removed and another had been run, while the other thread was
\* registering too.
C23_Witness ==
    /\ next_cleanup_id["r1"] = MaxCleanups
    /\ \E c, d \in MadeBy("r1") :
          /\ c.id < d.id
          /\ hist[c].fate \in {"removed", "detached"}
          /\ hist[d].fate = "pending"
          /\ hist[d].epoch >= 1
    /\ result.op \in {"add", "add_to_front"}
    /\ result.thread = "t2"

\* C30: a remove that returned took the record out for good: its function
\* is never called and no run() holds it; a remove that raised found the
\* record not pending: a run() had detached it (and calls its function), or
\* it had been removed or cleared before.  A record removed with success is
\* never one whose function a run() has called.
C30_RemoveOrRunNotBoth ==
    /\ \A c \in Made :
          /\ hist[c].fate = "removed"
                => hist[c].calls = 0 /\ ~InFrames(c) /\ hist[c].by = 0
          /\ hist[c].calls >= 1 => hist[c].fate = "detached"
          /\ hist[c].fate = "detached"
                => /\ ~ListContains(cleanups[c.cleanups], c)
                   /\ \A p \in Detached :
                         Frame(p).pc = "done" /\ Frame(p).epoch = hist[c].by
                             => hist[c].calls = 1
    /\ result.op = "remove"
          => IF result.kind = "return"
             THEN hist[result.arg].fate = "removed" /\ hist[result.arg].calls = 0
             ELSE /\ result.value = "ValueError"
                  /\ hist[result.arg].fate \in {"detached", "removed", "cleared"}

\* C30 witness: one thread's remove of a record has raised because the
\* other thread's run() had detached it, and that run() has called the
\* record's function.
C30_Witness ==
    /\ result.op = "remove"
    /\ result.kind = "raise"
    /\ hist[result.arg].fate = "detached"
    /\ hist[result.arg].calls = 1
    /\ stack[result.thread] = <<>>
    /\ \E t \in Threads : t # result.thread /\ stack[t] # <<>>

\* C24: a record that clear() discarded is in no pending sequence and in
\* no run(): its function is never called and no listener is called for
\* it; a run() whose detach follows with every record registered since the
\* detach before it cleared (or removed) detaches nothing, calls no function
\* and no listener; and a remove of a cleared record raises ValueError.
C24_ClearDiscardsPending ==
    /\ result.op = "clear" => result.kind = "return"
    /\ \A c \in Made :
          hist[c].fate = "cleared"
              => /\ hist[c].calls = 0
                 /\ hist[c].by = 0
                 /\ ~ListContains(cleanups[c.cleanups], c)
                 /\ \A p \in Detached :
                       LET f == Frame(p)
                       IN  /\ ~ListContains(f.cleanups, c)
                           /\ \A k \in 1..Len(f.log) : f.log[k].c # c
    /\ \A p \in Detached :
          LET f == Frame(p)
          IN  (\A c \in Since(f.reg, f.epoch - 1) : hist[c].fate \in {"cleared", "removed"})
                  => f.snapshot = <<>> /\ f.log = <<>>
    /\ result.op = "remove" /\ hist[result.arg].fate = "cleared"
          => result.kind = "raise" /\ result.value = "ValueError"

\* C24 witness: a record was cleared, a run() detached after that and has
\* returned without the record's function being called, and the remove of
\* the record that followed has raised ValueError.
C24_Witness ==
    /\ result.op = "remove"
    /\ result.kind = "raise"
    /\ result.value = "ValueError"
    /\ hist[result.arg].fate = "cleared"
    /\ hist[result.arg].epoch < ndetach[result.arg.cleanups]
    /\ hist[result.arg].calls = 0
    /\ nruns >= 1
    /\ stack[result.thread] = <<>>

\* C24 witness of the run(): two records were cleared; the run() that
\* followed with a listener attached is done and has called nothing.
C24_WitnessRun ==
    \E p \in Detached :
        LET f == Frame(p)
        IN  /\ f.pc = "done"
            /\ f.listeners # <<>>
            /\ f.log = <<>>
            /\ Cardinality({c \in Since(f.reg, f.epoch - 1) : hist[c].fate = "cleared"}) = 2

\* C26: a DebugCleanupListener (an instance of a CleanupListener subclass)
\* attached to a registry has its starting, completed and failed methods
\* entered, and so writes its line, for every notification run() sends.
C26_SubclassListenerReached ==
    \A p \in Running :
        LET f == Frame(p)
        IN  \A m \in 1..Len(f.cleanups) : \A j \in 1..Len(f.listeners) :
            \A ev \in Events :
                /\ f.listeners[j] = Listener("method", "none")
                /\ Due(f, ev, m, j)
                /\ Occurs(f, ev, f.cleanups[m])
                => Cardinality(Got(f, ev, f.cleanups[m], j)) = 1

\* The steps run() takes on thread t, from the detach of the pending
\* sequence to the end of its for loop.
RunStep(t) ==
    \/ RunDetach(t)
    \/ RunGlobalAcquire(t)
    \/ RunGlobalSnapshot(t)
    \/ Notify(t)
    \/ CallbackEnds(t)
    \/ ExecCleanup(t)
    \/ ActionEnds(t)

\* SpecNotify with progress: a thread inside run() goes on, and the
\* functions and callbacks it calls return or raise.
FairNotify == SpecNotify /\ WF_vars(RunStep("t1"))

\* The state of record c in the run() call of frame f: "pending" until its
\* function is being called, "running" during the call, then "completed" or
\* "failed" after the branch _execute_cleanup took; "skipped" when
\* _execute_cleanup returned without calling it.
RecordState(f, c) ==
    LET m == IndexOf(f.cleanups, c)
        ran == \E k \in 1..Len(f.log) : f.log[k].ev = "run" /\ f.log[k].c = c
    IN  IF f.pc \in {"detach", "global", "global_locked"} \/ m > f.i THEN "pending"
        ELSE IF m = f.i
        THEN IF ~ran THEN "pending"
             ELSE IF f.pc = "action" THEN "running"
             ELSE f.event
        ELSE IF ~ran THEN "skipped"
             ELSE IF CleanupRun(c).kind = "return" THEN "completed" ELSE "failed"

Terminal == {"skipped", "completed", "failed"}

\* The transitions of the state machine of a record, stuttering included.
RecordSteps ==
    {<<"pending", "pending">>, <<"pending", "skipped">>, <<"pending", "running">>,
     <<"running", "running">>, <<"running", "completed">>, <<"running", "failed">>,
     <<"skipped", "skipped">>, <<"completed", "completed">>, <<"failed", "failed">>}

\* The records SpecNotify can create.
NotifyRecords ==
    {Cleanup("r1", id, func, <<>>, {}) :
        id \in 1..MaxCleanups, func \in {"f_ok", "f_raise", "f_exit"}}

\* C29: within a run() call every record it detached goes pending ->
\* skipped, or pending -> running -> completed, or pending -> running ->
\* failed: its function is called at most once, it is skipped only when a
\* listener asked for that, a run() that is done has every record in a
\* terminal state, no step takes a record along any other transition, a
\* record the run() is past gets no further call of its function or of a
\* listener, and (when functions and callbacks return) every detached
\* record reaches a terminal state.
C29_RecordStateMachine ==
    /\ [](\A p \in Detached :
            LET f == Frame(p)
            IN  \A c \in Range(f.cleanups) :
                    /\ Cardinality({k \in 1..Len(f.log) :
                                       f.log[k].ev = "run" /\ f.log[k].c = c}) <= 1
                    /\ RecordState(f, c) = "skipped"
                          => \E k \in 1..Len(f.log) :
                                /\ f.log[k].ev = "starting"
                                /\ f.log[k].c = c
                                /\ f.listeners[f.log[k].l].beh = "skip"
                    /\ RecordState(f, c) \in {"completed", "failed"}
                          => (RecordState(f, c) = "completed") = (CleanupRun(c).kind = "return")
                    /\ f.pc = "done" => RecordState(f, c) \in Terminal)
    /\ [][\A p \in Detached :
            Len(stack'[p[1]]) >= p[2]
                => LET f == Frame(p)
                       g == stack'[p[1]][p[2]]
                   IN  \A c \in Range(f.cleanups) :
                           /\ <<RecordState(f, c), RecordState(g, c)>> \in RecordSteps
                           /\ IndexOf(f.cleanups, c) < f.i /\ f.pc \notin {"global", "global_locked"}
                                 => Calls(g, c) = Calls(f, c) /\ hist'[c].calls = hist[c].calls]_vars
    /\ \A c \in NotifyRecords :
          (stack["t1"] # <<>> /\ ListContains(stack["t1"][1].cleanups, c))
              ~> (/\ stack["t1"] # <<>>
                  /\ ListContains(stack["t1"][1].cleanups, c)
                  /\ RecordState(stack["t1"][1], c) \in Terminal)

\* C29 witness: a run() is done; the function of one of its records
\* raised and failed reached a listener, the function of the other returned
\* and completed reached a listener.
C29_Witness ==
    \E p \in Detached :
        LET f == Frame(p)
        IN  /\ f.pc = "done"
            /\ \E c, d \in Range(f.cleanups) :
                  /\ RecordState(f, c) = "failed"
                  /\ Delivered(f, "failed", c) # {}
                  /\ RecordState(f, d) = "completed"
                  /\ Delivered(f, "completed", d) # {}

\* C29 witness of the skipped state: a run() is done and has skipped both
\* of its records.
C29_WitnessSkipped ==
    \E p \in Detached :
        LET f == Frame(p)
        IN  /\ f.pc = "done"
            /\ Len(f.cleanups) = 2
            /\ \A c \in Range(f.cleanups) : RecordState(f, c) = "skipped"

\* What add_unlink and add_rmtree register.
SugarFunc(op) == IF op = "add_unlink" THEN "os.unlink" ELSE "shutil.rmtree"

\* C28: add_unlink(path) and add_rmtree(path) do what add(os.unlink, path)
\* and add(shutil.rmtree, path) do: a record of that function and that one
\* positional argument has been made by add, and the caller gets a result
\* that is not None, the record.
C28_SugarEquivalentToAdd ==
    result.op \in {"add_unlink", "add_rmtree"}
        => /\ \E c \in MadeBy("r1") :
                 /\ c.func = SugarFunc(result.op)
                 /\ c.args = <<result.arg>>
                 /\ c.kwargs = {}
                 /\ hist[c].via = "add"
           /\ result.value # "None"
           /\ result.value \in MadeBy("r1")

\* The part of C28 about the registry: a step of add_unlink / add_rmtree
\* leaves the pending sequence, the id counter and the history as the step
\* of add(os.unlink, path) / add(shutil.rmtree, path) from the same state.
C28_SameEffectAsAdd ==
    [][\A path \in Paths :
          AddUnlink("t1", "r1", path) \/ AddRmtree("t1", "r1", path)
              => LET c == NewCleanup("r1", SugarFunc(result'.op), <<path>>, {})
                 IN  /\ cleanups' = [cleanups EXCEPT !["r1"] = ListAppend(@, c)]
                     /\ next_cleanup_id' = [next_cleanup_id EXCEPT !["r1"] = @ + 1]
                     /\ hist' = Registered("r1", c, "add")]_vars

\* The named container is a list or tuple whose elements are all pairs.
AllPairs(k) ==
    k.kind \in {"list", "tuple"} /\ \A i \in 1..Len(k.items) : k.items[i].n = 2

\* The dict an iterable of pairs stands for: of every key the last value.
LastWins(items) ==
    {<<items[i].k, items[i].v>> : i \in
        {i \in 1..Len(items) : \A j \in (i + 1)..Len(items) : items[j].k # items[i].k}}

\* C27 (as stated): Cleanup(...) called with args that is not iterable, or
\* with kwargs that is not a mapping, raises instead of making a record.
C27_NonMappingRejected ==
    result.op = "Cleanup"
        => (result.arg.args.kind \in {"int", "none"} \/ result.arg.kwargs.kind # "dict"
               => result.kind = "raise")

\* C27 (amended): Cleanup(...) stores the elements of args as a tuple and
\* the items of kwargs as a dict of its own: a list or dict the caller
\* changes afterwards leaves the record as it was.  It raises TypeError
\* when args is not iterable or kwargs is not iterable, and TypeError or
\* ValueError when kwargs is an iterable with an element that is no pair;
\* kwargs that is an iterable of pairs is accepted like a mapping.
C27_StoresTupleAndDict ==
    result.op = "Cleanup"
        => LET a == result.arg.args
               k == result.arg.kwargs
           IN  /\ a.kind \in {"int", "none"}
                     => result.kind = "raise" /\ result.value = "TypeError"
               /\ a.kind \notin {"int", "none"} /\ k.kind \in {"int", "none"}
                     => result.kind = "raise" /\ result.value = "TypeError"
               /\ a.kind \notin {"int", "none"} /\ k.kind \in {"list", "tuple"} /\ ~AllPairs(k)
                     => result.kind = "raise" /\ result.value \in {"TypeError", "ValueError"}
               /\ a.kind \notin {"int", "none"} /\ (k.kind = "dict" \/ AllPairs(k))
                     => /\ result.kind = "return"
                        /\ result.value.cleanup.args = a.items
                        /\ k.kind = "dict" => result.value.cleanup.kwargs = k.items
                        /\ AllPairs(k) => result.value.cleanup.kwargs = LastWins(k.items)
                        /\ \A n \in result.value.shares : a.kind = "tuple" /\ n = "args"

\* C27 witness: a record was made from a list and a dict, and the caller
\* has changed both afterwards.
C27_Witness ==
    /\ result.op = "Cleanup"
    /\ result.kind = "return"
    /\ result.arg.args.kind = "list"
    /\ result.arg.kwargs.kind = "dict"
    /\ Len(result.arg.now.args.items) > Len(result.arg.args.items)
    /\ result.arg.now.kwargs.items # result.arg.kwargs.items
    /\ Len(result.value.cleanup.args) = 2
    /\ Cardinality(result.value.cleanup.kwargs) = 2

\* C27 witness of the failures: Cleanup(...) with a list as args and an
\* iterable with an element that is no pair as kwargs has raised.
C27_WitnessRaise ==
    /\ result.op = "Cleanup"
    /\ result.kind = "raise"
    /\ result.arg.args.kind = "list"
    /\ result.arg.kwargs.kind = "list"

\* The thread is executing the function of a record or the callback of a
\* listener that one of its run() calls has called.
InCallee(t) == stack[t] # <<>> /\ Top(t).pc \in {"action", "callback"}

\* C21: no thread holds the instance lock of a registry and the
\* process-wide listener lock at the same time; a thread holds an instance
\* lock only inside the detach block of run() and the listener lock only
\* inside the snapshot block; and a thread that is executing the function of
\* a record or the callback of a listener holds no lock.
C21_LocksNeverNested ==
    \A t \in Threads :
        /\ ~(global_lock = t /\ \E r \in Registries : lock[r] = t)
        /\ \A r \in Registries :
              lock[r] = t => stack[t] # <<>> /\ Top(t).pc = "detach" /\ Top(t).reg = r
        /\ global_lock = t => stack[t] # <<>> /\ Top(t).pc = "global_locked"
        /\ InCallee(t) => global_lock # t /\ \A r \in Registries : lock[r] # t

\* C21 witness: a run() called from inside the function of a record has
\* taken and released both locks and is executing a callback of a listener.
C21_Witness ==
    /\ Len(stack["t1"]) = 2
    /\ stack["t1"][1].pc = "action"
    /\ stack["t1"][2].pc = "callback"
    /\ global_lock = NoThread
    /\ \A r \in Registries : lock[r] = NoThread

\* SpecReentrant with progress: a thread inside run() goes on, the
\* functions and callbacks it calls return, and run() returns.
FairReentrant == SpecReentrant /\ WF_vars(RunStep("t1") \/ RunReturn("t1"))

\* C22: a thread that holds a lock can always take its next step, which
\* releases the lock, and a thread that waits for the listener lock holds
\* no lock; while a thread executes a function or callback that run() has
\* called, no lock is held by it, so that each of add, add_to_front, remove,
\* clear, len, contains, run, add_global_listener and remove_global_listener
\* it calls on the registry can be taken as soon as no other thread is
\* inside the short block that holds the lock, and so can an add of another
\* thread; and every run() call, nested ones included, returns.
C22_NoDeadlock ==
    /\ [](\A t \in Threads :
            /\ \A r \in Registries : lock[r] = t => ENABLED RunDetach(t)
            /\ global_lock = t => ENABLED RunGlobalSnapshot(t)
            /\ stack[t] # <<>> /\ Top(t).pc = "global" => \A r \in Registries : lock[r] # t
            /\ InCallee(t)
                  => /\ global_lock # t
                     /\ \A r \in instances :
                           /\ lock[r] # t
                           /\ lock[r] = NoThread
                                 => /\ ENABLED Clear(t, r)
                                    /\ ENABLED LenOf(t, r)
                                    /\ \A c \in Made :
                                          ENABLED Remove(t, r, c) /\ ENABLED Contains(t, r, c)
                                    /\ next_cleanup_id[r] < MaxCleanups
                                          => /\ ENABLED Add(t, r, "f_ok", <<>>, {})
                                             /\ ENABLED AddToFront(t, r, "f_ok", <<>>, {})
                                             /\ \A u \in Threads \ {t} :
                                                   stack[u] = <<>> => ENABLED Add(u, r, "f_ok", <<>>, {})
                                    /\ nruns < MaxRuns => ENABLED CallRun(t, r)
                     /\ global_lock = NoThread
                           => /\ ENABLED RemoveGlobalListener(t, Listener("attr", "none"))
                              /\ Len(global_listeners) < MaxListeners
                                    => ENABLED AddGlobalListener(t, Listener("attr", "none")))
    /\ \A t \in Threads : (stack[t] # <<>>) ~> (stack[t] = <<>>)

\* C22 witness: a run() called from inside a callback of a listener, while
\* the run() that called the listener is executing it, has returned.
C22_Witness ==
    /\ Len(stack["t1"]) = 1
    /\ Top("t1").pc = "callback"
    /\ Top("t1").epoch = 1
    /\ ndetach["r1"] = 2
    /\ result = Returned("t1", "run", "-", "None")

\* C25: len() returns the number, and contains(c) returns whether c is one,
\* of the records of the registry that were registered and have not been
\* removed, cleared or detached by a run(); the pending sequence holds
\* exactly those records.
C25_LenAndContainsReflectPending ==
    /\ [](\A r \in instances :
            /\ Range(cleanups[r]) = {c \in MadeBy(r) : hist[c].fate = "pending"}
            /\ Len(cleanups[r]) = Cardinality({c \in MadeBy(r) : hist[c].fate = "pending"}))
    /\ [][\A t \in Threads : \A r \in instances :
            /\ LenOf(t, r)
                  => result'.value = Cardinality({c \in MadeBy(r) : hist[c].fate = "pending"})
            /\ \A c \in Made :
                  Contains(t, r, c)
                      => result'.value = (c \in MadeBy(r) /\ hist[c].fate = "pending")]_vars

\* C25 witness: inside a run(), contains() has returned False for a record
\* the run() detached and whose function has not been called yet.
C25_Witness ==
    /\ result.op = "contains"
    /\ result.value = FALSE
    /\ hist[result.arg].fate = "detached"
    /\ hist[result.arg].calls = 0
    /\ InCallee("t1")
    /\ ListContains(Top("t1").cleanups, result.arg)

\* C25 witness of len(): inside a run() that detached a record, len() has
\* returned 1: the record that was registered after the detach.
C25_WitnessLen ==
    /\ result.op = "len"
    /\ result.value = 1
    /\ InCallee("t1")
    /\ Len(Top("t1").cleanups) = 1
    /\ Len(cleanups["r1"]) = 1
    /\ hist[cleanups["r1"][1]].epoch >= 1

\* The listeners of a run() whose starting is a plain callable stored on the
\* object, which takes the call of dispatch_notifications.
Callable(f) == {j \in 1..Len(f.listeners) : f.listeners[j].kind = "attr"}

\* C31: starting of a record is delivered to every listener of the run(),
\* those after a listener that asked to skip included, and the record is
\* skipped exactly when some listener of the run() returns a true value from
\* starting; a listener whose starting raises does not ask.
C31_StartingReachesAllThenDecides ==
    \A p \in Running :
        LET f == Frame(p)
        IN  \A m \in 1..Len(f.cleanups) :
                LET c == f.cleanups[m]
                IN  /\ \A j \in 1..Len(f.listeners) :
                          Due(f, "starting", m, j)
                              => Cardinality(Got(f, "starting", c, j)) = 1
                    /\ RunDue(f, m)
                          => ((c \notin Processed(f))
                                 <=> \E j \in 1..Len(f.listeners) : f.listeners[j].beh = "skip")

\* The part of C31 that holds: among the listeners whose starting is a plain
\* callable, each gets starting of every record once, those after one that
\* asked to skip included, and the record is skipped exactly when one of
\* them returns a true value; the function is not called before the last
\* listener was tried.
C31_CallableListenersAllThenDecide ==
    \A p \in Running :
        LET f == Frame(p)
        IN  \A m \in 1..Len(f.cleanups) :
                LET c == f.cleanups[m]
                IN  /\ \A j \in Callable(f) :
                          Due(f, "starting", m, j)
                              => Cardinality(Got(f, "starting", c, j)) = 1
                    /\ \A j \in 1..Len(f.listeners) :
                          c \in Processed(f) => Due(f, "starting", m, j)
                    /\ RunDue(f, m)
                          => ((c \notin Processed(f))
                                 <=> \E j \in Callable(f) : f.listeners[j].beh = "skip")

\* C31 case: a listener asked to skip a record, the listener after it was
\* still called with starting of the record, and the run() went past the
\* record without calling its function.
C31_SkipThenDelivered ==
    \E p \in Running :
        LET f == Frame(p)
        IN  /\ Len(f.listeners) = 2
            /\ f.listeners[1] = Listener("attr", "skip")
            /\ f.listeners[2] = Listener("attr", "none")
            /\ f.i > 1
            /\ f.cleanups[1] \notin Processed(f)
            /\ Got(f, "starting", f.cleanups[1], 2) # {}

====
